---- MODULE Spec2Model ----
(***************************************************************************)
(* Model of kipz/tufzy's file-resolution backends.                         *)
(*                                                                         *)
(* Go strings are modelled as sequences of one-character strings, so that  *)
(* prefix matches, cuts, splits and path operations are computed          *)
(* character by character as the Go library computes them.  Byte contents  *)
(* are sequences of small naturals.                                        *)
(***************************************************************************)
EXTENDS Integers, Sequences, FiniteSets, TLC

----------------------------------------------------------------------------
(* strings: package strings                                                *)

HasPrefix(s, p) == Len(p) <= Len(s) /\ SubSeq(s, 1, Len(p)) = p

HasSuffix(s, p) == Len(p) <= Len(s) /\ SubSeq(s, Len(s) - Len(p) + 1, Len(s)) = p

TrimPrefix(s, p) == IF HasPrefix(s, p) THEN SubSeq(s, Len(p) + 1, Len(s)) ELSE s

TrimSuffix(s, p) == IF HasSuffix(s, p) THEN SubSeq(s, 1, Len(s) - Len(p)) ELSE s

\* index of the first occurrence of character c in s at or after position i,
\* 0 when absent
RECURSIVE IndexFrom(_, _, _)
IndexFrom(s, c, i) ==
    IF i > Len(s) THEN 0
    ELSE IF s[i] = c THEN i
    ELSE IndexFrom(s, c, i + 1)

\* strings.IndexByte, counted from 1; 0 when absent
IndexByte(s, c) == IndexFrom(s, c, 1)

\* index of the last occurrence of character c in s at or before position i,
\* 0 when absent
RECURSIVE LastIndexFrom(_, _, _)
LastIndexFrom(s, c, i) ==
    IF i < 1 THEN 0
    ELSE IF s[i] = c THEN i
    ELSE LastIndexFrom(s, c, i - 1)

\* strings.LastIndexByte, counted from 1; 0 when absent
LastIndexByte(s, c) == LastIndexFrom(s, c, Len(s))

\* strings.Cut with a one-character separator
Cut(s, c) ==
    LET i == IndexByte(s, c)
    IN  IF i = 0
        THEN [before |-> s, after |-> <<>>, found |-> FALSE]
        ELSE [before |-> SubSeq(s, 1, i - 1),
              after  |-> SubSeq(s, i + 1, Len(s)),
              found  |-> TRUE]

\* strings.Split with a one-character separator
RECURSIVE Split(_, _)
Split(s, c) ==
    LET i == IndexByte(s, c)
    IN  IF i = 0 THEN <<s>>
        ELSE <<SubSeq(s, 1, i - 1)>> \o Split(SubSeq(s, i + 1, Len(s)), c)

\* strings.Join with a one-character separator
RECURSIVE JoinWith(_, _)
JoinWith(parts, c) ==
    IF Len(parts) = 0 THEN <<>>
    ELSE IF Len(parts) = 1 THEN parts[1]
    ELSE parts[1] \o <<c>> \o JoinWith(Tail(parts), c)

----------------------------------------------------------------------------
(* paths: package path and package path/filepath on a Unix build           *)

RECURSIVE TrimTrailingSlashes(_)
TrimTrailingSlashes(p) ==
    IF Len(p) > 0 /\ p[Len(p)] = "/"
    THEN TrimTrailingSlashes(SubSeq(p, 1, Len(p) - 1))
    ELSE p

\* path.Base / filepath.Base
PathBase(p) ==
    IF p = <<>> THEN <<".">>
    ELSE LET q == TrimTrailingSlashes(p)
             i == LastIndexByte(q, "/")
             r == SubSeq(q, i + 1, Len(q))
         IN  IF r = <<>> THEN <<"/">> ELSE r

\* the element loop of filepath.Clean: drops empty and "." elements and
\* resolves ".." against the elements kept so far
RECURSIVE CleanElems(_, _, _)
CleanElems(elems, out, rooted) ==
    IF elems = <<>> THEN out
    ELSE LET e == Head(elems)
             rest == Tail(elems)
         IN  IF e = <<>> \/ e = <<".">>
             THEN CleanElems(rest, out, rooted)
             ELSE IF e = <<".",".">>
             THEN IF Len(out) > 0 /\ out[Len(out)] # <<".",".">>
                  THEN CleanElems(rest, SubSeq(out, 1, Len(out) - 1), rooted)
                  ELSE IF rooted
                       THEN CleanElems(rest, out, rooted)
                       ELSE CleanElems(rest, Append(out, e), rooted)
             ELSE CleanElems(rest, Append(out, e), rooted)

\* filepath.Clean
PathClean(p) ==
    IF p = <<>> THEN <<".">>
    ELSE LET rooted == p[1] = "/"
             body == JoinWith(CleanElems(Split(p, "/"), <<>>, rooted), "/")
         IN  IF rooted THEN <<"/">> \o body
             ELSE IF body = <<>> THEN <<".">> ELSE body

\* filepath.Dir: everything up to the last separator, cleaned
PathDir(p) == PathClean(SubSeq(p, 1, LastIndexByte(p, "/")))

\* filepath.Join: the non-empty elements joined by "/" and cleaned
PathJoin(elems) ==
    LET ne == SelectSeq(elems, LAMBDA e : e # <<>>)
    IN  IF ne = <<>> THEN <<>> ELSE PathClean(JoinWith(ne, "/"))

----------------------------------------------------------------------------
(* character classes                                                       *)

Digits == {"0", "1", "2", "3", "4", "5", "6", "7", "8", "9"}

Letters == {"a", "b", "c", "d", "e", "f", "g", "h", "i", "j", "k", "l", "m",
            "n", "o", "p", "q", "r", "s", "t", "u", "v", "w", "x", "y", "z"}

HexDigits == Digits \cup {"a", "b", "c", "d", "e", "f"}

----------------------------------------------------------------------------
(* net/url: url.Parse and URL.String, for addresses without user info,     *)
(* query or fragment.  The characters of the modelled addresses (letters,  *)
(* digits and . _ - : /) are written unescaped by URL.String, so the path  *)
(* escaping is the identity on every address that parses.                  *)

\* a '%' that does not start a two-digit hexadecimal escape
BadEscape(s) ==
    \E i \in 1..Len(s) :
        /\ s[i] = "%"
        /\ ~(i + 2 <= Len(s) /\ s[i + 1] \in HexDigits /\ s[i + 2] \in HexDigits)

\* getScheme: the characters before the first ':' when they form a scheme
UrlSchemeLen(s) ==
    LET i == IndexByte(s, ":")
    IN  IF /\ i > 1
           /\ s[1] \in Letters
           /\ \A j \in 1..(i - 1) : s[j] \in Letters \cup Digits \cup {"+", "-", "."}
        THEN i - 1 ELSE 0

UrlParse(raw) ==
    LET n == UrlSchemeLen(raw)
        scheme == SubSeq(raw, 1, n)
        rest == IF n > 0 THEN SubSeq(raw, n + 2, Len(raw)) ELSE raw
        bad == [ok |-> FALSE, scheme |-> <<>>, opaque |-> <<>>, host |-> <<>>, path |-> <<>>]
    IN  IF raw # <<>> /\ raw[1] = ":" THEN bad        \* missing protocol scheme
        ELSE IF BadEscape(raw) THEN bad                \* invalid URL escape
        ELSE IF ~HasPrefix(rest, <<"/">>) /\ n > 0
        THEN [ok |-> TRUE, scheme |-> scheme, opaque |-> rest, host |-> <<>>, path |-> <<>>]
        ELSE IF ~HasPrefix(rest, <<"/">>) /\ IndexByte(Cut(rest, "/").before, ":") > 0
        THEN bad                                       \* first path segment cannot contain colon
        ELSE IF (n > 0 \/ ~HasPrefix(rest, <<"/","/","/">>)) /\ HasPrefix(rest, <<"/","/">>)
        THEN LET auth == SubSeq(rest, 3, Len(rest))
                 i == IndexByte(auth, "/")
             IN  [ok |-> TRUE, scheme |-> scheme, opaque |-> <<>>,
                  host |-> IF i = 0 THEN auth ELSE SubSeq(auth, 1, i - 1),
                  path |-> IF i = 0 THEN <<>> ELSE SubSeq(auth, i, Len(auth))]
        ELSE [ok |-> TRUE, scheme |-> scheme, opaque |-> <<>>, host |-> <<>>, path |-> rest]

UrlString(u) ==
    LET pre == IF u.scheme # <<>> THEN u.scheme \o <<":">> ELSE <<>>
    IN  IF u.opaque # <<>> THEN pre \o u.opaque
        ELSE LET auth == IF (u.scheme # <<>> \/ u.host # <<>>) /\ (u.host # <<>> \/ u.path # <<>>)
                         THEN <<"/","/">> \o u.host ELSE <<>>
                 sep == IF u.path # <<>> /\ u.path[1] # "/" /\ u.host # <<>> THEN <<"/">> ELSE <<>>
                 dot == IF pre \o auth \o sep = <<>> /\ IndexByte(Cut(u.path, "/").before, ":") > 0
                        THEN <<".","/">> ELSE <<>>
             IN  pre \o auth \o sep \o dot \o u.path

----------------------------------------------------------------------------
(* Git-layout backend: TufOnCiFetcher.mapTufOnCiURL                        *)

RootHistoryDir == <<"r","o","o","t","_","h","i","s","t","o","r","y">>

DotJson == <<".","j","s","o","n">>

\* the roles named by versionedPattern
VersionedRoles == {<<"r","o","o","t">>, <<"s","n","a","p","s","h","o","t">>, <<"t","i","m","e","s","t","a","m","p">>, <<"t","a","r","g","e","t","s">>}

\* versionedPattern.FindStringSubmatch: ^(\d+)\.(root|snapshot|timestamp|targets)\.json$
versionedPattern(filename) ==
    LET i == IndexByte(filename, ".")
        version == SubSeq(filename, 1, i - 1)
        tail == SubSeq(filename, i + 1, Len(filename))
        role == TrimSuffix(tail, DotJson)
    IN  IF /\ i > 1
           /\ \A j \in 1..(i - 1) : filename[j] \in Digits
           /\ HasSuffix(tail, DotJson)
           /\ role \in VersionedRoles
        THEN [matched |-> TRUE, version |-> version, role |-> role]
        ELSE [matched |-> FALSE, version |-> <<>>, role |-> <<>>]

\* the directory chosen by the switch on the role: root versions other
\* than "1" move to root_history (variant: the initial root moves there too)
newDirPathAllRoots(dirPath, role, version) ==
    IF role = <<"r","o","o","t">> THEN PathJoin(<<dirPath, RootHistoryDir>>) ELSE dirPath

newDirPath(dirPath, role, version) ==
    IF role = <<"r","o","o","t">> /\ version # <<"1">>
    THEN PathJoin(<<dirPath, RootHistoryDir>>)
    ELSE dirPath

\* the file name chosen by the switch on the role (variant: the case for the
\* unversioned roles leaves out targets)
newFilenameNoTargets(filename, role) ==
    IF role \in {<<"s","n","a","p","s","h","o","t">>, <<"t","i","m","e","s","t","a","m","p">>} THEN role \o DotJson ELSE filename

newFilename(filename, role) ==
    IF role = <<"r","o","o","t">> THEN filename
    ELSE IF role \in {<<"s","n","a","p","s","h","o","t">>, <<"t","i","m","e","s","t","a","m","p">>, <<"t","a","r","g","e","t","s">>} THEN role \o DotJson
    ELSE filename

\* (variant: the URL is rebuilt from its parts for every file name)
mapTufOnCiURLAlwaysRebuilt(f, tufURL) ==
    LET parsedURL == UrlParse(tufURL)
        filename == PathBase(parsedURL.path)
        dirPath == PathDir(parsedURL.path)
        matches == versionedPattern(filename)
        dir == newDirPath(dirPath, matches.role, matches.version)
        file == newFilename(filename, matches.role)
    IN  IF ~parsedURL.ok THEN tufURL
        ELSE UrlString([parsedURL EXCEPT !.path = PathJoin(<<dir, file>>)])

\* (variant: only a request below the fetcher's metadata base URL is
\* rewritten)
mapTufOnCiURLUnderBase(f, tufURL) ==
    LET parsedURL == UrlParse(tufURL)
        filename == PathBase(parsedURL.path)
        dirPath == PathDir(parsedURL.path)
        matches == versionedPattern(filename)
        dir == newDirPath(dirPath, matches.role, matches.version)
        file == newFilename(filename, matches.role)
    IN  IF ~parsedURL.ok THEN tufURL
        ELSE IF matches.matched /\ HasPrefix(tufURL, f.metadataBaseURL)
        THEN UrlString([parsedURL EXCEPT !.path = PathJoin(<<dir, file>>)])
        ELSE tufURL

\* TufOnCiFetcher.mapTufOnCiURL; f is the receiver
mapTufOnCiURL(f, tufURL) ==
    LET parsedURL == UrlParse(tufURL)
        filename == PathBase(parsedURL.path)
        dirPath == PathDir(parsedURL.path)
        matches == versionedPattern(filename)
        dir == newDirPath(dirPath, matches.role, matches.version)
        file == newFilename(filename, matches.role)
    IN  IF ~parsedURL.ok THEN tufURL
        ELSE IF matches.matched
        THEN UrlString([parsedURL EXCEPT !.path = PathJoin(<<dir, file>>)])
        ELSE tufURL

----------------------------------------------------------------------------
(* Registry backend: address parsing                                       *)

OCIScheme == <<"o","c","i",":","/","/">>

LatestTag == <<"l","a","t","e","s","t">>

\* Roles: root, snapshot, targets, timestamp
Roles == {<<"r","o","o","t">>, <<"s","n","a","p","s","h","o","t">>, <<"t","a","r","g","e","t","s">>, <<"t","i","m","e","s","t","a","m","p">>}

\* (variant: the list of top-level roles leaves out timestamp)
isDelegatedRoleNoTimestamp(role) == role \notin {<<"r","o","o","t">>, <<"s","n","a","p","s","h","o","t">>, <<"t","a","r","g","e","t","s">>}

isDelegatedRole(role) == role \notin Roles

roleFromConsistentName(filename) ==
    LET name == TrimSuffix(filename, DotJson)
        role == Split(name, ".")
    IN  IF Len(role) > 1 THEN role[2] ELSE role[1]

\* reference.ParseNormalizedNamed for a reference whose registry host is
\* written out (no docker.io defaulting applies): the tag is what follows
\* the last ':' when that ':' comes after the last '/'
RefTagIndex(ref) ==
    LET i == LastIndexByte(ref, ":")
    IN  IF i > LastIndexByte(ref, "/") THEN i ELSE 0

RefName(ref) == IF RefTagIndex(ref) = 0 THEN ref ELSE SubSeq(ref, 1, RefTagIndex(ref) - 1)

RefTag(ref) == IF RefTagIndex(ref) = 0 THEN LatestTag ELSE SubSeq(ref, RefTagIndex(ref) + 1, Len(ref))

NewRegistryFetcher(metadataURL, targetsURL) ==
    LET metadataURLStripped == TrimPrefix(metadataURL, OCIScheme)
        targetsURLStripped == TrimPrefix(targetsURL, OCIScheme)
    IN  [metadataRepo |-> RefName(metadataURLStripped),
         metadataTag  |-> RefTag(metadataURLStripped),
         targetsRepo  |-> RefName(targetsURLStripped),
         targetsTag   |-> RefTag(targetsURLStripped),
         metadataURL  |-> metadataURL,
         targetsURL   |-> targetsURL]

\* the targets branch of parseImgRef (variant: the file name searched for
\* under a subdirectory is the name without the subdirectory)
parseTargetsRefBareName(fetcher, urlPath) ==
    LET target == TrimPrefix(urlPath, fetcher.targetsURL \o <<"/">>)
        c == Cut(target, "/")
    IN  IF c.found
        THEN [imgRef |-> fetcher.targetsRepo \o <<":">> \o c.before, fileName |-> c.after, err |-> FALSE]
        ELSE [imgRef |-> fetcher.targetsRepo \o <<":">> \o target, fileName |-> target, err |-> FALSE]

parseTargetsRef(fetcher, urlPath) ==
    LET target == TrimPrefix(urlPath, fetcher.targetsURL \o <<"/">>)
        c == Cut(target, "/")
    IN  IF c.found
        THEN [imgRef |-> fetcher.targetsRepo \o <<":">> \o c.before,
              fileName |-> c.before \o <<"/">> \o c.after, err |-> FALSE]
        ELSE [imgRef |-> fetcher.targetsRepo \o <<":">> \o target, fileName |-> target, err |-> FALSE]

\* the metadata branch of parseImgRef
parseMetadataRef(fetcher, urlPath) ==
    LET fileName == PathBase(urlPath)
        role == roleFromConsistentName(fileName)
    IN  IF isDelegatedRole(role)
        THEN [imgRef |-> fetcher.metadataRepo \o <<":">> \o role, fileName |-> fileName, err |-> FALSE]
        ELSE [imgRef |-> fetcher.metadataRepo \o <<":">> \o fetcher.metadataTag,
              fileName |-> fileName, err |-> FALSE]

\* (variant: an address under neither URL is taken for a metadata address)
parseImgRefNoError(fetcher, urlPath) ==
    IF HasPrefix(urlPath, fetcher.targetsURL) THEN parseTargetsRef(fetcher, urlPath)
    ELSE parseMetadataRef(fetcher, urlPath)

\* (variant: the metadata URL prefix is tested before the targets URL prefix)
parseImgRefMetadataFirst(fetcher, urlPath) ==
    IF HasPrefix(urlPath, fetcher.metadataURL) THEN parseMetadataRef(fetcher, urlPath)
    ELSE IF HasPrefix(urlPath, fetcher.targetsURL) THEN parseTargetsRef(fetcher, urlPath)
    ELSE [imgRef |-> <<>>, fileName |-> <<>>, err |-> TRUE]

\* RegistryFetcher.parseImgRef
parseImgRef(fetcher, urlPath) ==
    IF HasPrefix(urlPath, fetcher.targetsURL) THEN parseTargetsRef(fetcher, urlPath)
    ELSE IF HasPrefix(urlPath, fetcher.metadataURL) THEN parseMetadataRef(fetcher, urlPath)
    ELSE [imgRef |-> <<>>, fileName |-> <<>>, err |-> TRUE]

----------------------------------------------------------------------------
(* integers: int64 arithmetic, scaled to IntBits bits                      *)

IntBits == 5

MaxInt == 2 ^ (IntBits - 1) - 1

\* two's-complement wrap-around of an int64 result
WrapInt(x) == ((x + 2 ^ (IntBits - 1)) % (2 ^ IntBits)) - 2 ^ (IntBits - 1)

\* io.ReadAll(io.LimitReader(content, n)): nothing is read when n <= 0
LimitRead(content, n) ==
    IF n <= 0 THEN <<>>
    ELSE IF n >= Len(content) THEN content
    ELSE SubSeq(content, 1, n)

----------------------------------------------------------------------------
(* Registry backend: state                                                 *)

VARIABLES
    d,          \* the RegistryFetcher's configuration fields
    cache,      \* ImageCache.cache: locator string -> bytes
    timeout,    \* RegistryFetcher.timeout
    registry,   \* the remote registry: manifests and layers by locator
    last,       \* observation of the last DownloadFile call
    calls       \* number of DownloadFile calls made on the instance

VARIABLES
    files,      \* the local filesystem: path -> [isDir, data]
    web         \* the HTTP server: URL -> [status, body]

VARIABLES
    fnIn,       \* the function applied and its argument
    fnOut,      \* the value the function returned
    tufIn,      \* the arguments of a TufOnCiFetcher.DownloadFile call
    tufOut      \* the mapped URL and the result of that call

VARIABLES
    pc,             \* the statement LayoutFromTUFOnCI is about to execute
    historyFiles,   \* the root_history entries not yet visited
    delegatedRoles, \* the queue of role names to process
    curRole,        \* roleName and role: the role being processed, as parsed
    pending,        \* the (target, hash algorithm) pairs of that role not yet copied
    layoutErr,      \* the error LayoutFromTUFOnCI returned
    processed,      \* the role names the current call has taken from the queue, in order
    runs            \* the number of calls that returned before the current one

layoutVars == <<pc, historyFiles, delegatedRoles, curRole, pending, layoutErr, processed, runs>>

VARIABLES
    clients     \* the Clients NewClientWithOptions has returned, in order

\* bytes held in the cache or served by the registry: manifest JSON is
\* represented by its decoded mediaType / layers / manifests fields, file
\* content by its byte sequence
ManifestBytes(mediaType, layers, manifests) ==
    [isJSON |-> TRUE, mediaType |-> mediaType, layers |-> layers,
     manifests |-> manifests, data |-> <<>>]

FileBytes(data) ==
    [isJSON |-> FALSE, mediaType |-> "", layers |-> <<>>, manifests |-> <<>>, data |-> data]

NoBytes == FileBytes(<<>>)

\* a Layer descriptor: the tuf.io/filename annotation and the digest
Layer(name, digest) == [annotation |-> name, digest |-> digest]

\* v1.NewHash: "sha256:" followed by hexadecimal digits
NewHashOK(digest) ==
    /\ HasPrefix(digest, <<"s","h","a","2","5","6",":">>)
    /\ Len(digest) > Len(<<"s","h","a","2","5","6",":">>)
    /\ \A i \in (Len(<<"s","h","a","2","5","6",":">>) + 1)..Len(digest) : digest[i] \in HexDigits

\* ImageCache.Get
CacheGet(c, imgRef) ==
    IF imgRef \in DOMAIN c
    THEN [img |-> c[imgRef], found |-> TRUE]
    ELSE [img |-> NoBytes, found |-> FALSE]

\* (variant: a Put drops the entries stored before)
CachePutEvicting(c, imgRef, img) == [k \in {imgRef} |-> img]

\* ImageCache.Put
CachePut(c, imgRef, img) == [k \in DOMAIN c \cup {imgRef} |-> IF k = imgRef THEN img ELSE c[k]]

\* The run of one DownloadFile call is threaded through a record st:
\*   cache   the cache as updated so far
\*   timeout d.timeout
\*   trips   the registry round trips made so far (operation, locator, timeout)
\*   failAt  the position of the round trip that fails (0: none fails)
Trip(st, op, ref) ==
    [st EXCEPT !.trips = Append(@, [op |-> op, ref |-> ref, timeout |-> st.timeout])]

TripFails(st) == st.failAt = Len(st.trips)

\* (variant: the manifest is pulled without consulting the cache)
getManifestNoCache(st, ref) ==
    LET st1 == Trip(st, "manifest", ref)
    IN  IF TripFails(st1) \/ ref \notin DOMAIN registry.manifests
        THEN [st |-> st1, err |-> TRUE, mf |-> NoBytes]
        ELSE [st |-> [st1 EXCEPT !.cache = CachePut(@, ref, registry.manifests[ref])],
              err |-> FALSE, mf |-> registry.manifests[ref]]

\* RegistryFetcher.getManifest
getManifest(st, ref) ==
    LET hit == CacheGet(st.cache, ref)
        st1 == Trip(st, "manifest", ref)
    IN  IF hit.found THEN [st |-> st, err |-> FALSE, mf |-> hit.img]
        ELSE IF TripFails(st1) \/ ref \notin DOMAIN registry.manifests
        THEN [st |-> st1, err |-> TRUE, mf |-> NoBytes]
        ELSE [st |-> [st1 EXCEPT !.cache = CachePut(@, ref, registry.manifests[ref])],
              err |-> FALSE, mf |-> registry.manifests[ref]]

\* (variant: the scan takes the first descriptor whatever its annotation)
ScanLayersFirst(layers, name) ==
    IF layers = <<>> THEN <<>> ELSE Head(layers).digest

\* the annotation scan of findFileInManifest: the digest of the first
\* descriptor annotated with the name, "" when there is none
RECURSIVE ScanLayers(_, _)
ScanLayers(layers, name) ==
    IF layers = <<>> THEN <<>>
    ELSE IF Head(layers).annotation = name THEN Head(layers).digest
    ELSE ScanLayers(Tail(layers), name)

RECURSIVE findFileInManifest(_, _, _, _)

\* (variant: the scan of the sub-manifest looks for the whole file name)
findFileInManifestWholeName(fetcher, st, mf, name) ==
    LET index == mf.mediaType = "OCIImageIndex"
        layers == IF index THEN mf.manifests ELSE mf.layers
        digest == ScanLayers(layers, name)
        fail == [st |-> st, err |-> TRUE, hash |-> <<>>]
    IN  IF ~mf.isJSON THEN fail
        ELSE IF mf.mediaType \notin {"OCIImageIndex", "OCIManifestSchema1"} THEN fail
        ELSE IF digest = <<>> THEN fail
        ELSE IF ~NewHashOK(digest) THEN fail
        ELSE IF index
        THEN LET sub == getManifest(st, fetcher.targetsRepo \o <<"@">> \o digest)
                 parts == Split(name, "/")
             IN  IF sub.err THEN [st |-> sub.st, err |-> TRUE, hash |-> <<>>]
                 ELSE findFileInManifest(fetcher, sub.st, sub.mf, name)
        ELSE [st |-> st, err |-> FALSE, hash |-> digest]

\* RegistryFetcher.findFileInManifest
findFileInManifest(fetcher, st, mf, name) ==
    LET index == mf.mediaType = "OCIImageIndex"
        layers == IF index THEN mf.manifests ELSE mf.layers
        digest == ScanLayers(layers, name)
        fail == [st |-> st, err |-> TRUE, hash |-> <<>>]
    IN  IF ~mf.isJSON THEN fail
        ELSE IF mf.mediaType \notin {"OCIImageIndex", "OCIManifestSchema1"} THEN fail
        ELSE IF digest = <<>> THEN fail
        ELSE IF ~NewHashOK(digest) THEN fail
        ELSE IF index
        THEN LET sub == getManifest(st, fetcher.targetsRepo \o <<"@">> \o digest)
                 parts == Split(name, "/")
             IN  IF sub.err THEN [st |-> sub.st, err |-> TRUE, hash |-> <<>>]
                 ELSE findFileInManifest(fetcher, sub.st, sub.mf, parts[Len(parts)])
        ELSE [st |-> st, err |-> FALSE, hash |-> digest]

\* getDataFromLayer; readFails: the content read returns an error
getDataFromLayer(fileLayer, maxLength, readFails) ==
    LET data == LimitRead(fileLayer.content, WrapInt(maxLength + 1))
    IN  IF fileLayer.size > maxLength THEN [kind |-> "LengthMismatch", data |-> <<>>]
        ELSE IF readFails THEN [kind |-> "Transport", data |-> <<>>]
        ELSE IF Len(data) > maxLength THEN [kind |-> "LengthMismatch", data |-> <<>>]
        ELSE [kind |-> "ok", data |-> data]

\* RegistryFetcher.pullFileLayer
pullFileLayer(st, ref, maxLength) ==
    LET hit == CacheGet(st.cache, ref)
        st1 == Trip(st, "layer", ref)
        st2 == IF registry.layers[ref].size > maxLength THEN st1 ELSE Trip(st1, "content", ref)
        got == getDataFromLayer(registry.layers[ref], maxLength, TripFails(st2))
    IN  IF hit.found THEN [st |-> st, kind |-> "ok", data |-> hit.img.data]
        ELSE IF TripFails(st1) \/ ref \notin DOMAIN registry.layers
        THEN [st |-> st1, kind |-> "Transport", data |-> <<>>]
        ELSE IF got.kind # "ok" THEN [st |-> st2, kind |-> got.kind, data |-> <<>>]
        ELSE [st |-> [st2 EXCEPT !.cache = CachePut(@, ref, FileBytes(got.data))],
              kind |-> "ok", data |-> got.data]

\* the body of RegistryFetcher.DownloadFile after d.timeout is set
DownloadFileRun(fetcher, st, urlPath, maxLength) ==
    LET p == parseImgRef(fetcher, urlPath)
        none == [imgRef |-> p.imgRef, fileName |-> p.fileName, layerRef |-> <<>>]
        m == getManifest(st, p.imgRef)
        f == findFileInManifest(fetcher, m.st, m.mf, p.fileName)
        parts == Split(p.imgRef, ":")
        layerRef == IF Len(parts) = 2 THEN parts[1] \o <<"@">> \o f.hash
                    ELSE parts[1] \o <<":">> \o parts[2] \o <<"@">> \o f.hash
        l == pullFileLayer(f.st, layerRef, maxLength)
    IN  IF p.err THEN [st |-> st, kind |-> "Configuration", data |-> <<>>] @@ none
        ELSE IF m.err THEN [st |-> m.st, kind |-> "Transport", data |-> <<>>] @@ none
        ELSE IF f.err THEN [st |-> f.st, kind |-> "NotFound", data |-> <<>>] @@ none
        ELSE IF Len(parts) \notin {2, 3}
        THEN [st |-> f.st, kind |-> "InvalidReference", data |-> <<>>] @@ none
        ELSE [st |-> l.st, kind |-> l.kind, data |-> l.data,
              imgRef |-> p.imgRef, fileName |-> p.fileName, layerRef |-> layerRef]

----------------------------------------------------------------------------
(* Registry backend: the registry content and the requests of the model    *)

\* the configured pairs of metadata URL and targets URL: in each of the
\* first two one repository is on a registry with a port and has no tag in
\* its URL, the other is on a registry without a port and has a tag; in the
\* third the metadata repository is named below the targets repository, so
\* that the targets URL is a prefix of the metadata URL
PortedMetadata == [metadataURL |-> <<"o","c","i",":","/","/","r",":","5","/","m">>, targetsURL |-> <<"o","c","i",":","/","/","r",".","i","o","/","t",":","v">>]

PortedTargets == [metadataURL |-> <<"o","c","i",":","/","/","r",".","i","o","/","m",":","v">>, targetsURL |-> <<"o","c","i",":","/","/","r",":","5","/","t">>]

NestedMetadata == [metadataURL |-> <<"o","c","i",":","/","/","r",".","i","o","/","p","/","m">>, targetsURL |-> <<"o","c","i",":","/","/","r",".","i","o","/","p">>]

Configs == {PortedMetadata, PortedTargets, NestedMetadata}

Fetchers == { NewRegistryFetcher(c.metadataURL, c.targetsURL) : c \in Configs }

\* the images stored for a fetcher's two repositories:
\*   metadata tag          image  timestamp.json, 1.root.json
\*   metadata:ab           image  ab.json            (delegated role ab)
\*   targets:f.txt         image  f.txt              (flat target)
\*   targets:sub           index  sub/e.txt, sub/g.txt -> image g.txt
\*   targets:dk            a manifest of another media type
\* a layer's declared size differs from its content length where the layer
\* is stored compressed
RegistryOf(f) ==
    LET M == f.metadataRepo
        T == f.targetsRepo
    IN  [manifests |->
            (M \o <<":">> \o f.metadataTag :>
                ManifestBytes("OCIManifestSchema1",
                    <<Layer(<<"t","i","m","e","s","t","a","m","p",".","j","s","o","n">>, <<"s","h","a","2","5","6",":","a","2">>),
                      Layer(<<"1",".","r","o","o","t",".","j","s","o","n">>, <<"s","h","a","2","5","6",":","a","1">>)>>, <<>>))
         @@ (M \o <<":","a","b">> :>
                ManifestBytes("OCIManifestSchema1", <<Layer(<<"a","b",".","j","s","o","n">>, <<"s","h","a","2","5","6",":","a","3">>)>>, <<>>))
         @@ (T \o <<":","f",".","t","x","t">> :>
                ManifestBytes("OCIManifestSchema1", <<Layer(<<"f",".","t","x","t">>, <<"s","h","a","2","5","6",":","b","1">>)>>, <<>>))
         @@ (T \o <<":","s","u","b">> :>
                ManifestBytes("OCIImageIndex", <<>>,
                    <<Layer(<<"s","u","b","/","e",".","t","x","t">>, <<"s","h","a","2","5","6",":","c","0">>), Layer(<<"s","u","b","/","g",".","t","x","t">>, <<"s","h","a","2","5","6",":","c","1">>)>>))
         @@ (T \o <<"@","s","h","a","2","5","6",":","c","1">> :>
                ManifestBytes("OCIManifestSchema1", <<Layer(<<"g",".","t","x","t">>, <<"s","h","a","2","5","6",":","b","2">>)>>, <<>>))
         @@ (T \o <<":","d","k">> :>
                ManifestBytes("DockerManifestSchema2", <<Layer(<<"d","k">>, <<"s","h","a","2","5","6",":","b","3">>)>>, <<>>)),
         layers |->
            (M \o <<"@","s","h","a","2","5","6",":","a","1">> :> [size |-> 2, content |-> <<1, 2>>])
         @@ (M \o <<"@","s","h","a","2","5","6",":","a","2">> :> [size |-> 1, content |-> <<3>>])
         @@ (M \o <<"@","s","h","a","2","5","6",":","a","3">> :> [size |-> 1, content |-> <<4, 5>>])
         @@ (T \o <<"@","s","h","a","2","5","6",":","b","1">> :> [size |-> 3, content |-> <<6>>])
         @@ (T \o <<"@","s","h","a","2","5","6",":","b","2">> :> [size |-> 1, content |-> <<9>>])]

\* the addresses requested from a fetcher
RequestsOf(f) ==
    { f.metadataURL \o <<"/","1",".","r","o","o","t",".","j","s","o","n">>,
      f.metadataURL \o <<"/","2",".","r","o","o","t",".","j","s","o","n">>,
      f.metadataURL \o <<"/","a","b",".","j","s","o","n">>,
      f.targetsURL \o <<"/","f",".","t","x","t">>,
      f.targetsURL \o <<"/","s","u","b","/","g",".","t","x","t">>,
      f.targetsURL \o <<"/","s","u","b","/","q",".","t","x","t">>,
      f.targetsURL \o <<"/","d","k">>,
      <<"o","c","i",":","/","/","r",".","i","o","/","o","/","f",".","t","x","t">> }

\* the maxLength arguments of the model
MaxLengths == {1, 3, MaxInt}

\* the timeout arguments of the model, in seconds
Timeouts == {30, 60}

\* a call makes at most this many registry round trips
MaxTrips == 4

\* the number of DownloadFile calls made on one instance
MaxCalls == 2

----------------------------------------------------------------------------
(* Registry backend: RegistryFetcher.DownloadFile as an action             *)

CountOp(trips, op) == Cardinality({i \in 1..Len(trips) : trips[i].op = op})

NoCall ==
    [urlPath |-> <<>>, maxLength |-> 0, kind |-> "none", data |-> <<>>, trips |-> <<>>,
     imgRef |-> <<>>, fileName |-> <<>>, layerRef |-> <<>>]

\* (the result of the run is bound once by the quantifier over a singleton)
DownloadFile(urlPath, maxLength, tmo, failAt) ==
    /\ calls < MaxCalls
    /\ \E r \in {DownloadFileRun(d, [cache |-> cache, timeout |-> tmo, trips |-> <<>>,
                                    failAt |-> failAt], urlPath, maxLength)} :
          /\ calls' = calls + 1
          /\ timeout' = tmo
          /\ cache' = r.st.cache
          /\ last' = [urlPath |-> urlPath, maxLength |-> maxLength, kind |-> r.kind,
                      data |-> r.data, trips |-> r.st.trips, imgRef |-> r.imgRef,
                      fileName |-> r.fileName, layerRef |-> r.layerRef]
    /\ UNCHANGED <<d, registry, files, web, fnIn, fnOut, tufIn, tufOut, layoutVars, clients>>

----------------------------------------------------------------------------
(* Filesystem/HTTP backend: FilesystemFetcher.DownloadFile                  *)

FetchResult(kind, status, data) == [kind |-> kind, status |-> status, data |-> data]

\* os.ReadFile on a Unix build: the kernel walks the path, ignoring repeated
\* separators and "." elements; a missing element is ENOENT, an element
\* that is not a directory but has a successor is ENOTDIR, a directory in
\* the last place is EISDIR
ReadFile(fs, name) ==
    LET p == PathClean(name)
        isDir(q) == q \in DOMAIN fs /\ fs[q].isDir
        stops == {k \in 2..Len(p) : p[k] = "/" /\ ~isDir(SubSeq(p, 1, k - 1))}
        first == CHOOSE k \in stops : \A j \in stops : k <= j
    IN  IF name = <<>> THEN [err |-> "ENOENT", data |-> <<>>]
        ELSE IF stops # {}
        THEN [err |-> IF SubSeq(p, 1, first - 1) \in DOMAIN fs THEN "ENOTDIR" ELSE "ENOENT",
              data |-> <<>>]
        ELSE IF p \notin DOMAIN fs THEN [err |-> "ENOENT", data |-> <<>>]
        ELSE IF fs[p].isDir THEN [err |-> "EISDIR", data |-> <<>>]
        ELSE [err |-> "", data |-> fs[p].data]

\* variant: a path that runs through a regular file counts as not existing
IsNotExistOrNotDir(err) == err \in {"ENOENT", "ENOTDIR"}

\* errors.Is(err, os.ErrNotExist) for a syscall error number
IsNotExist(err) == err = "ENOENT"

\* httpFails: the HTTP round trip itself fails
FilesystemDownloadFile(urlPath, maxLength, httpFails) ==
    LET parsedURL == UrlParse(urlPath)
        filePath == parsedURL.path
        read == ReadFile(files, filePath)
        resp == IF urlPath \in DOMAIN web THEN web[urlPath] ELSE [status |-> 404, body |-> <<>>]
        body == IF maxLength > 0 THEN LimitRead(resp.body, WrapInt(maxLength + 1)) ELSE resp.body
    IN  IF ~parsedURL.ok THEN FetchResult("InvalidURL", 0, <<>>)
        ELSE IF parsedURL.scheme = <<"f","i","l","e">>
        THEN IF IsNotExist(read.err) THEN FetchResult("ErrDownloadHTTP", 404, <<>>)
             ELSE IF read.err # "" THEN FetchResult("ReadError", 0, <<>>)
             ELSE IF maxLength > 0 /\ Len(read.data) > maxLength
             THEN FetchResult("SizeError", 0, <<>>)
             ELSE FetchResult("ok", 0, read.data)
        ELSE IF parsedURL.scheme \notin {<<"h","t","t","p">>, <<"h","t","t","p","s">>} \/ httpFails
        THEN FetchResult("Transport", 0, <<>>)
        ELSE IF resp.status # 200 THEN FetchResult("ErrDownloadHTTP", resp.status, <<>>)
        ELSE IF maxLength > 0 /\ Len(body) > maxLength THEN FetchResult("SizeError", 0, <<>>)
        ELSE FetchResult("ok", 0, body)

\* a tuf-on-ci working tree checked out at /r: current unversioned role
\* files, the initial root and the root history
WorkingTree ==
       (<<"/","r">> :> [isDir |-> TRUE, data |-> <<>>])
    @@ (<<"/","r","/","m">> :> [isDir |-> TRUE, data |-> <<>>])
    @@ (<<"/","r","/","m","/","1",".","r","o","o","t",".","j","s","o","n">> :> [isDir |-> FALSE, data |-> <<1>>])
    @@ (<<"/","r","/","m","/","r","o","o","t","_","h","i","s","t","o","r","y">> :> [isDir |-> TRUE, data |-> <<>>])
    @@ (<<"/","r","/","m","/","r","o","o","t","_","h","i","s","t","o","r","y","/","1",".","r","o","o","t",".","j","s","o","n">> :> [isDir |-> FALSE, data |-> <<1>>])
    @@ (<<"/","r","/","m","/","r","o","o","t","_","h","i","s","t","o","r","y","/","2",".","r","o","o","t",".","j","s","o","n">> :> [isDir |-> FALSE, data |-> <<2, 2>>])
    @@ (<<"/","r","/","m","/","s","n","a","p","s","h","o","t",".","j","s","o","n">> :> [isDir |-> FALSE, data |-> <<3, 3>>])
    @@ (<<"/","r","/","m","/","t","i","m","e","s","t","a","m","p",".","j","s","o","n">> :> [isDir |-> FALSE, data |-> <<4>>])
    @@ (<<"/","r","/","m","/","t","a","r","g","e","t","s",".","j","s","o","n">> :> [isDir |-> FALSE, data |-> <<5, 5, 5>>])
    @@ (<<"/","r","/","m","/","a","b",".","j","s","o","n">> :> [isDir |-> FALSE, data |-> <<6>>])

\* the same tree served over HTTPS by host h
WebSite ==
    LET served == {q \in DOMAIN WorkingTree : ~WorkingTree[q].isDir}
    IN  [u \in {<<"h","t","t","p","s",":","/","/","h">> \o q : q \in served} |->
            [status |-> 200, body |-> WorkingTree[SubSeq(u, Len(<<"h","t","t","p","s",":","/","/","h">>) + 1, Len(u))].data]]

----------------------------------------------------------------------------
(* Git-layout backend: TufOnCiFetcher.DownloadFile as an action             *)

\* file names: a version prefix, a role name and an extension, and a few
\* names that only resemble versioned role files
VersionPrefixes == {<<>>, <<"0",".">>, <<"1",".">>, <<"2",".">>, <<"1","0",".">>, <<"0","1",".">>, <<"v","1",".">>}

RoleNames == {<<"r","o","o","t">>, <<"s","n","a","p","s","h","o","t">>, <<"t","i","m","e","s","t","a","m","p">>, <<"t","a","r","g","e","t","s">>, <<"a","b">>, <<"a",".","b">>}

FileNames ==
    { v \o r \o e : v \in VersionPrefixes, r \in RoleNames, e \in {DotJson, <<>>} }
    \cup { <<"1",".","r","o","o","t",".","j","s","o","n","x">>, <<"x","1",".","r","o","o","t",".","j","s","o","n">>, <<"1",".",".","r","o","o","t",".","j","s","o","n">>, <<".","j","s","o","n">>, <<"f",".","t","x","t">> }

\* request addresses: local, HTTPS and scheme-less, in the metadata
\* directory, in the same directory written with a doubled separator, in a
\* directory whose name is not a valid URL escape, and in the targets directory
TufDirs == {<<"f","i","l","e",":","/","/","/","r","/","m">>, <<"h","t","t","p","s",":","/","/","h","/","r","/","m">>, <<"/","r","/","m">>, <<"f","i","l","e",":","/","/","/","r","/","/","m">>, <<"f","i","l","e",":","/","/","/","p","%","/","m">>,
            <<"f","i","l","e",":","/","/","/","r","/","t">>, <<"m">>}

TufRequests == { dir \o <<"/">> \o f : dir \in TufDirs, f \in FileNames } \cup FileNames

TufMaxLengths == {0, 2, MaxInt}

NoTufOut == [done |-> FALSE, mappedURL |-> <<>>, kind |-> "none", status |-> 0, data |-> <<>>]

\* NewFilesystemFetcher: the Timeout of the http.Client, in seconds
NewFilesystemFetcher == [httpClientTimeout |-> 30]

\* NewTufOnCiFetcher: the embedded FilesystemFetcher and the base URL
NewTufOnCiFetcher(metadataBaseURL) ==
    [FilesystemFetcher |-> NewFilesystemFetcher, metadataBaseURL |-> metadataBaseURL]

\* TufOnCiFetcher.DownloadFile on a fetcher made for tufIn.metadataBaseURL
TufOnCiDownloadFile ==
    LET mappedURL == mapTufOnCiURL(NewTufOnCiFetcher(tufIn.metadataBaseURL), tufIn.urlPath)
        res == FilesystemDownloadFile(mappedURL, tufIn.maxLength, tufIn.httpFails)
    IN  /\ ~tufOut.done
        /\ tufOut' = [done |-> TRUE, mappedURL |-> mappedURL, kind |-> res.kind,
                      status |-> res.status, data |-> res.data]
        /\ UNCHANGED <<d, cache, timeout, registry, last, calls, files, web, fnIn, fnOut, tufIn, layoutVars, clients>>

----------------------------------------------------------------------------
(* Filesystem/HTTP backend: one DownloadFile call                          *)

\* the web server of host h with two pages that answer with an error status
FsWebSite ==
       (<<"h","t","t","p","s",":","/","/","h","/","e","/","4","0","3">> :> [status |-> 403, body |-> <<>>])
    @@ (<<"h","t","t","p","s",":","/","/","h","/","e","/","5","0","0">> :> [status |-> 500, body |-> <<>>])
    @@ WebSite

\* request addresses: local files that exist, are absent from an existing
\* directory, lie in an absent directory, lie below a regular file or are a
\* directory; pages that are served, are absent or answer with an error;
\* an address with a scheme the client does not speak, one without a
\* scheme and one that does not parse
FsRequests ==
    {<<"f","i","l","e",":","/","/","/","r","/","m","/","a","b",".","j","s","o","n">>, <<"f","i","l","e",":","/","/","/","r","/","m","/","t","a","r","g","e","t","s",".","j","s","o","n">>, <<"f","i","l","e",":","/","/","/","r","/","/","m","/","a","b",".","j","s","o","n">>,
     <<"f","i","l","e",":","/","/","/","r","/","m","/","z","z",".","j","s","o","n">>, <<"f","i","l","e",":","/","/","/","r","/","q","/","z","z",".","j","s","o","n">>, <<"f","i","l","e",":","/","/","/","r","/","m","/","a","b",".","j","s","o","n","/","z","z",".","j","s","o","n">>,
     <<"f","i","l","e",":","/","/","/","r","/","m","/","r","o","o","t","_","h","i","s","t","o","r","y">>, <<"f","i","l","e",":","/","/","/","r","/","m">>,
     <<"h","t","t","p","s",":","/","/","h","/","r","/","m","/","a","b",".","j","s","o","n">>, <<"h","t","t","p","s",":","/","/","h","/","r","/","m","/","t","a","r","g","e","t","s",".","j","s","o","n">>, <<"h","t","t","p","s",":","/","/","h","/","r","/","m","/","z","z",".","j","s","o","n">>,
     <<"h","t","t","p","s",":","/","/","h","/","e","/","4","0","3">>, <<"h","t","t","p","s",":","/","/","h","/","e","/","5","0","0">>,
     <<"f","t","p",":","/","/","h","/","r","/","m","/","a","b",".","j","s","o","n">>, <<"/","r","/","m","/","a","b",".","j","s","o","n">>, <<"f","i","l","e",":","/","/","/","p","%","/","m">>}

\* FilesystemFetcher.DownloadFile(urlPath, maxLength, timeout): the third
\* argument is not named in the signature and not used; a round trip is
\* made with the fetcher's http.Client, under that client's Timeout
ApplyFilesystemDownloadFile ==
    /\ fnIn.fn = "DownloadFile"
    /\ ~fnOut.done
    /\ \E f \in {NewFilesystemFetcher} :
       \E res \in {FilesystemDownloadFile(fnIn.arg.urlPath, fnIn.arg.maxLength, fnIn.arg.httpFails)} :
       \E parsedURL \in {UrlParse(fnIn.arg.urlPath)} :
          fnOut' = [done |-> TRUE, kind |-> res.kind, status |-> res.status, data |-> res.data,
                    trips |-> IF parsedURL.ok /\ parsedURL.scheme \in {<<"h","t","t","p">>, <<"h","t","t","p","s">>}
                              THEN <<[url |-> fnIn.arg.urlPath, timeout |-> f.httpClientTimeout]>>
                              ELSE <<>>]
    /\ UNCHANGED <<d, cache, timeout, registry, last, calls, files, web, fnIn, tufIn, tufOut, layoutVars, clients>>

----------------------------------------------------------------------------
(* Registry backend: address parsing applied to bounded inputs             *)

\* the addresses given to parseImgRef: file names and subdirectory paths
\* under the metadata URL, under the targets URL and under another URL, and
\* addresses that extend a configured URL without a separator
ParseInputs(f) ==
    LET bases == {f.metadataURL, f.targetsURL, <<"o","c","i",":","/","/","r",".","i","o","/","o">>}
        rests == { <<"/">> \o n : n \in FileNames }
                 \cup { <<"/","s","u","b","/">> \o n : n \in FileNames }
                 \cup { <<>>, <<"/">>, <<"x","/","f",".","t","x","t">>, <<"/","a","/","b","/","f",".","t","x","t">>, <<"/","/","f",".","t","x","t">> }
    IN  { b \o r : b \in bases, r \in rests }

NoFnOut == [done |-> FALSE, imgRef |-> <<>>, fileName |-> <<>>, err |-> FALSE, role |-> <<>>]

ApplyParseImgRef ==
    LET r == parseImgRef(d, fnIn.arg)
    IN  /\ fnIn.fn = "parseImgRef"
        /\ ~fnOut.done
        /\ fnOut' = [done |-> TRUE, imgRef |-> r.imgRef, fileName |-> r.fileName,
                     err |-> r.err, role |-> <<>>]
        /\ UNCHANGED <<d, cache, timeout, registry, last, calls, files, web, fnIn, tufIn, tufOut, layoutVars, clients>>

ApplyRoleFromConsistentName ==
    /\ fnIn.fn = "roleFromConsistentName"
    /\ ~fnOut.done
    /\ fnOut' = [done |-> TRUE, imgRef |-> <<>>, fileName |-> <<>>, err |-> FALSE,
                 role |-> roleFromConsistentName(fnIn.arg)]
    /\ UNCHANGED <<d, cache, timeout, registry, last, calls, files, web, fnIn, tufIn, tufOut, layoutVars, clients>>

----------------------------------------------------------------------------
(* Layout converter: the filesystem calls it makes                         *)

\* os.MkdirAll: creates the directory and every missing parent; fails when
\* an element of the path exists and is not a directory
MkdirAll(fs, path) ==
    LET p == PathClean(path)
        dirs == {SubSeq(p, 1, k - 1) : k \in {j \in 2..(Len(p) + 1) : j = Len(p) + 1 \/ p[j] = "/"}}
        made == [q \in dirs \ DOMAIN fs |-> [isDir |-> TRUE, data |-> <<>>]]
    IN  IF \E q \in dirs : q \in DOMAIN fs /\ ~fs[q].isDir
        THEN [err |-> "ENOTDIR", fs |-> fs]
        ELSE [err |-> "", fs |-> made @@ fs]

\* os.ReadDir: the entries of a directory, sorted by file name in bytewise
\* lexicographic order; byteOrder lists the bytes that occur in file names
\* in increasing order
ReadDir(fs, name) ==
    LET p == PathClean(name)
        read == ReadFile(fs, name)
        entries == {q \in DOMAIN fs : q # p /\ PathDir(q) = p}
        byteOrder == <<"-",".","/","0","1","2","3","4","5","6","7","8","9","_","a","b","c","d","e","f","g","h","i","j","k","l","m","n","o","p","q","r","s","t","u","v","w","x","y","z">>
        less(a, b) ==
            \E i \in 1..(Len(a) + 1) :
                /\ i <= Len(b)
                /\ SubSeq(a, 1, i - 1) = SubSeq(b, 1, i - 1)
                /\ i > Len(a) \/ IndexByte(byteOrder, a[i]) < IndexByte(byteOrder, b[i])
        RECURSIVE sorted(_)
        sorted(names) ==
            IF names = {} THEN <<>>
            ELSE LET least == CHOOSE n \in names : \A m \in names \ {n} : less(n, m)
                 IN  <<least>> \o sorted(names \ {least})
    IN  IF read.err = "EISDIR"
        THEN [err |-> "", names |-> sorted({PathBase(q) : q \in entries})]
        ELSE [err |-> IF read.err = "" THEN "ENOTDIR" ELSE read.err, names |-> <<>>]

\* variant: an existing file is appended to, not truncated
WriteFileAppend(fs, name, data) ==
    LET p == PathClean(name)
        read == ReadFile(fs, name)
        parent == PathDir(p)
        parentIsDir == parent = <<"/">> \/ (parent \in DOMAIN fs /\ fs[parent].isDir)
    IN  IF read.err = "" \/ (read.err = "ENOENT" /\ parentIsDir)
        THEN [err |-> "", fs |-> (p :> [isDir |-> FALSE, data |-> read.data \o data]) @@ fs]
        ELSE [err |-> read.err, fs |-> fs]

\* os.WriteFile: creates or truncates the file; its directory must exist
WriteFile(fs, name, data) ==
    LET p == PathClean(name)
        read == ReadFile(fs, name)
        parent == PathDir(p)
        parentIsDir == parent = <<"/">> \/ (parent \in DOMAIN fs /\ fs[parent].isDir)
    IN  IF read.err = "" \/ (read.err = "ENOENT" /\ parentIsDir)
        THEN [err |-> "", fs |-> (p :> [isDir |-> FALSE, data |-> data]) @@ fs]
        ELSE [err |-> read.err, fs |-> fs]

NoError == [msg |-> "", path |-> <<>>, cause |-> ""]

\* fmt.Errorf("<msg> <path>: %w", cause)
Errorf(msg, path, cause) == [msg |-> msg, path |-> path, cause |-> cause]

copyFile(fs, src, dst) ==
    LET read == ReadFile(fs, src)
        written == WriteFile(fs, dst, read.data)
    IN  IF read.err # "" THEN [err |-> Errorf("reading file to copy", src, read.err), fs |-> fs]
        ELSE IF written.err # "" THEN [err |-> Errorf("writing file", src, written.err), fs |-> fs]
        ELSE [err |-> NoError, fs |-> written.fs]

----------------------------------------------------------------------------
(* Layout converter: role metadata                                         *)

\* fmt.Sprintf("%d", n)
RECURSIVE Itoa(_)
Itoa(n) ==
    IF n < 0 THEN <<"-">> \o Itoa(0 - n)
    ELSE IF n < 10 THEN <<<<"0","1","2","3","4","5","6","7","8","9">>[n + 1]>>
    ELSE Itoa(n \div 10) \o <<<<"0","1","2","3","4","5","6","7","8","9">>[(n % 10) + 1]>>

\* HexBytes.String: two lower-case hexadecimal digits per byte
HexString(bytes) ==
    LET digit(k) == <<"0","1","2","3","4","5","6","7","8","9","a","b","c","d","e","f">>[k + 1]
        pair(i) == <<digit(bytes[i] \div 16), digit(bytes[i] % 16)>>
        RECURSIVE upTo(_)
        upTo(n) == IF n = 0 THEN <<>> ELSE upTo(n - 1) \o pair(n)
    IN  upTo(Len(bytes))

\* what the JSON documents of the source layouts declare, by file content:
\* the type, the version, the targets with their hashes by algorithm, and
\* the names of the delegated roles in declaration order
Documents ==
       (<<3, 3>> :> [type |-> "snapshot", version |-> 12, targets |-> <<>>, roles |-> <<>>])
    @@ (<<5>> :> [type |-> "targets", version |-> 1, targets |-> <<>>, roles |-> <<>>])
    @@ (<<5, 5>> :> [type |-> "targets", version |-> 3,
                     targets |-> (<<"f">> :> ("sha256" :> <<171>>))
                              @@ (<<"s","u","b","/","g">> :> (("sha256" :> <<18>>) @@ ("sha512" :> <<52, 86>>))),
                     roles |-> <<>>])
    @@ (<<5, 5, 5>> :> [type |-> "targets", version |-> 3,
                        targets |-> (<<"f">> :> ("sha256" :> <<171>>))
                                 @@ (<<"s","u","b","/","g">> :> (("sha256" :> <<18>>) @@ ("sha512" :> <<52, 86>>))),
                        roles |-> <<<<"a">>>>])
    @@ (<<6>> :> [type |-> "targets", version |-> 2,
                  targets |-> (<<"k">> :> (("sha256" :> <<205>>) @@ ("sha512" :> <<239>>))),
                  roles |-> <<>>])
    @@ (<<5, 5, 5, 5>> :> [type |-> "targets", version |-> 3,
                           targets |-> (<<"f">> :> ("sha256" :> <<171>>)),
                           roles |-> <<<<"a">>, <<"b">>>>])
    @@ (<<6, 6>> :> [type |-> "targets", version |-> 2,
                     targets |-> (<<"k">> :> (("sha256" :> <<205>>) @@ ("sha512" :> <<239>>))),
                     roles |-> <<<<"c">>>>])
    @@ (<<6, 6, 6>> :> [type |-> "targets", version |-> 4, targets |-> <<>>, roles |-> <<<<"c">>>>])
    @@ (<<10>> :> [type |-> "targets", version |-> 1,
                   targets |-> (<<"s","u","b","/","g">> :> ("sha256" :> <<18>>)),
                   roles |-> <<>>])
    @@ (<<11>> :> [type |-> "targets", version |-> 5,
                   targets |-> (<<"k">> :> ("sha256" :> <<205>>)),
                   roles |-> <<<<"t","a","r","g","e","t","s">>>>])
    @@ (<<12>> :> [type |-> "targets", version |-> 7, targets |-> <<>>, roles |-> <<<<"a">>>>])

\* metadata.Snapshot().FromFile and metadata.Targets().FromFile: reads the
\* file, unmarshals it and checks the declared type
FromFile(fs, name, type) ==
    LET read == ReadFile(fs, name)
    IN  IF read.err # "" THEN [err |-> read.err, signed |-> Documents[<<5>>]]
        ELSE IF read.data \notin DOMAIN Documents THEN [err |-> "unmarshal", signed |-> Documents[<<5>>]]
        ELSE IF Documents[read.data].type # type THEN [err |-> "type", signed |-> Documents[<<5>>]]
        ELSE [err |-> "", signed |-> Documents[read.data]]

----------------------------------------------------------------------------
(* Layout converter: LayoutFromTUFOnCI                                     *)

\* the arguments of the call
tufOnCIPath == <<"/","s">>
outputDir == <<"/","o">>

outputMetadataDir == PathJoin(<<outputDir, <<"m","e","t","a","d","a","t","a">>>>)
metadataDir == PathJoin(<<tufOnCIPath, <<"m","e","t","a","d","a","t","a">>>>)
targetsDir == PathJoin(<<tufOnCIPath, <<"t","a","r","g","e","t","s">>>>)
rootHistoryPath == PathJoin(<<metadataDir, RootHistoryDir>>)
outputTargetsDir == PathJoin(<<outputDir, <<"t","a","r","g","e","t","s">>>>)

\* the state of the other components, which the converter leaves alone
fetchVars == <<d, cache, timeout, registry, last, calls, web, fnIn, fnOut, tufIn, tufOut, clients>>

\* return err, the filesystem being fs at that point
LayoutReturn(err, fs) ==
    /\ pc' = "returned"
    /\ layoutErr' = err
    /\ files' = fs
    /\ UNCHANGED <<historyFiles, delegatedRoles, curRole, pending>>

\* lines 16-34: the output directories are made and root_history is listed
LayoutBegin ==
    /\ pc = "start"
    /\ \E m1 \in {MkdirAll(files, outputDir)} :
       \E m2 \in {MkdirAll(m1.fs, outputMetadataDir)} :
       \E rd \in {ReadDir(m2.fs, rootHistoryPath)} :
          IF m1.err # ""
          THEN LayoutReturn(Errorf("couldn't create root output directory", outputDir, m1.err), files)
          ELSE IF m2.err # ""
          THEN LayoutReturn(Errorf("couldn't create metadata output directory",
                                   outputMetadataDir, m2.err), m1.fs)
          ELSE IF rd.err # ""
          THEN LayoutReturn(Errorf("reading root history", rootHistoryPath, rd.err), m2.fs)
          ELSE /\ pc' = "history"
               /\ historyFiles' = rd.names
               /\ files' = m2.fs
               /\ UNCHANGED <<delegatedRoles, curRole, pending, layoutErr>>
    /\ UNCHANGED <<fetchVars, processed, runs>>

\* variant: every root_history entry is copied, whatever its name
CopyRootHistoryAll ==
    /\ pc = "history"
    /\ historyFiles # <<>>
    /\ \E rh \in {Head(historyFiles)} :
       \E cp \in {copyFile(files, PathJoin(<<rootHistoryPath, rh>>), PathJoin(<<outputMetadataDir, rh>>))} :
          IF cp.err # NoError
          THEN LayoutReturn(cp.err, files)
          ELSE /\ files' = cp.fs
               /\ historyFiles' = Tail(historyFiles)
               /\ UNCHANGED <<pc, delegatedRoles, curRole, pending, layoutErr>>
    /\ UNCHANGED <<fetchVars, processed, runs>>

\* lines 36-42: one iteration of the loop over the root_history entries
CopyRootHistory ==
    /\ pc = "history"
    /\ historyFiles # <<>>
    /\ \E rh \in {Head(historyFiles)} :
       \E cp \in {copyFile(files, PathJoin(<<rootHistoryPath, rh>>), PathJoin(<<outputMetadataDir, rh>>))} :
          IF HasSuffix(rh, <<".","r","o","o","t",".","j","s","o","n">>) /\ cp.err # NoError
          THEN LayoutReturn(cp.err, files)
          ELSE /\ files' = IF HasSuffix(rh, <<".","r","o","o","t",".","j","s","o","n">>) THEN cp.fs ELSE files
               /\ historyFiles' = Tail(historyFiles)
               /\ UNCHANGED <<pc, delegatedRoles, curRole, pending, layoutErr>>
    /\ UNCHANGED <<fetchVars, processed, runs>>

\* lines 44-47: timestamp.json is copied under its own name
CopyTimestamp ==
    /\ pc = "history"
    /\ historyFiles = <<>>
    /\ \E cp \in {copyFile(files, PathJoin(<<metadataDir, <<"t","i","m","e","s","t","a","m","p",".","j","s","o","n">>>>),
                           PathJoin(<<outputMetadataDir, <<"t","i","m","e","s","t","a","m","p",".","j","s","o","n">>>>))} :
          IF cp.err # NoError
          THEN LayoutReturn(cp.err, files)
          ELSE /\ pc' = "snapshot"
               /\ files' = cp.fs
               /\ UNCHANGED <<historyFiles, delegatedRoles, curRole, pending, layoutErr>>
    /\ UNCHANGED <<fetchVars, processed, runs>>

\* variant: a snapshot.json that cannot be loaded is skipped
CopySnapshotOptional ==
    /\ pc = "snapshot"
    /\ \E snapshotFile \in {PathJoin(<<metadataDir, <<"s","n","a","p","s","h","o","t",".","j","s","o","n">>>>)} :
       \E snapshot \in {FromFile(files, snapshotFile, "snapshot")} :
       \E cp \in {copyFile(files, snapshotFile,
                           PathJoin(<<outputMetadataDir,
                                      Itoa(snapshot.signed.version) \o <<".","s","n","a","p","s","h","o","t",".","j","s","o","n">>>>))} :
          /\ pc' = "roles"
          /\ files' = IF snapshot.err # "" \/ cp.err # NoError THEN files ELSE cp.fs
          /\ delegatedRoles' = <<<<"t","a","r","g","e","t","s">>>>
          /\ UNCHANGED <<historyFiles, curRole, pending, layoutErr>>
    /\ UNCHANGED <<fetchVars, processed, runs>>

\* lines 49-65: snapshot.json is parsed and copied under its version; the
\* queue starts with "targets"
CopySnapshot ==
    /\ pc = "snapshot"
    /\ \E snapshotFile \in {PathJoin(<<metadataDir, <<"s","n","a","p","s","h","o","t",".","j","s","o","n">>>>)} :
       \E snapshot \in {FromFile(files, snapshotFile, "snapshot")} :
       \E cp \in {copyFile(files, snapshotFile,
                           PathJoin(<<outputMetadataDir,
                                      Itoa(snapshot.signed.version) \o <<".","s","n","a","p","s","h","o","t",".","j","s","o","n">>>>))} :
          IF snapshot.err # ""
          THEN LayoutReturn(Errorf("loading snapshot", snapshotFile, snapshot.err), files)
          ELSE IF cp.err # NoError
          THEN LayoutReturn(cp.err, files)
          ELSE /\ pc' = "roles"
               /\ files' = cp.fs
               /\ delegatedRoles' = <<<<"t","a","r","g","e","t","s">>>>
               /\ UNCHANGED <<historyFiles, curRole, pending, layoutErr>>
    /\ UNCHANGED <<fetchVars, processed, runs>>

\* a call takes at most this many role names from the queue
MaxProcessed == 6

\* variant: the role added to the queue last is taken first
ProcessRoleLast ==
    /\ pc = "roles"
    /\ delegatedRoles # <<>>
    /\ Len(processed) < MaxProcessed
    /\ \E roleName \in {delegatedRoles[Len(delegatedRoles)]} :
       \E roleFile \in {PathJoin(<<metadataDir, roleName \o DotJson>>)} :
       \E parsed \in {FromFile(files, roleFile, "targets")} :
       \E cp \in {copyFile(files, roleFile,
                           PathJoin(<<outputMetadataDir,
                                      Itoa(parsed.signed.version) \o <<".">> \o roleName \o DotJson>>))} :
          /\ delegatedRoles' = SubSeq(delegatedRoles, 1, Len(delegatedRoles) - 1)
          /\ IF parsed.err # ""
             THEN /\ pc' = "returned"
                  /\ layoutErr' = Errorf("loading targets for role", roleFile, parsed.err)
                  /\ UNCHANGED <<files, curRole, pending>>
             ELSE IF cp.err # NoError
             THEN /\ pc' = "returned"
                  /\ layoutErr' = cp.err
                  /\ UNCHANGED <<files, curRole, pending>>
             ELSE /\ pc' = "targets"
                  /\ files' = cp.fs
                  /\ curRole' = [name |-> roleName, signed |-> parsed.signed]
                  /\ pending' = {pr \in (DOMAIN parsed.signed.targets) \X {"sha256", "sha512"} :
                                     pr[2] \in DOMAIN parsed.signed.targets[pr[1]]}
                  /\ UNCHANGED layoutErr
          /\ processed' = Append(processed, roleName)
          /\ UNCHANGED historyFiles
    /\ UNCHANGED <<fetchVars, runs>>

\* lines 72-88: the head of the queue is taken, its file parsed and copied
\* under its version
ProcessRole ==
    /\ pc = "roles"
    /\ delegatedRoles # <<>>
    /\ Len(processed) < MaxProcessed
    /\ \E roleName \in {Head(delegatedRoles)} :
       \E roleFile \in {PathJoin(<<metadataDir, roleName \o DotJson>>)} :
       \E parsed \in {FromFile(files, roleFile, "targets")} :
       \E cp \in {copyFile(files, roleFile,
                           PathJoin(<<outputMetadataDir,
                                      Itoa(parsed.signed.version) \o <<".">> \o roleName \o DotJson>>))} :
          /\ delegatedRoles' = Tail(delegatedRoles)
          /\ IF parsed.err # ""
             THEN /\ pc' = "returned"
                  /\ layoutErr' = Errorf("loading targets for role", roleFile, parsed.err)
                  /\ UNCHANGED <<files, curRole, pending>>
             ELSE IF cp.err # NoError
             THEN /\ pc' = "returned"
                  /\ layoutErr' = cp.err
                  /\ UNCHANGED <<files, curRole, pending>>
             ELSE /\ pc' = "targets"
                  /\ files' = cp.fs
                  /\ curRole' = [name |-> roleName, signed |-> parsed.signed]
                  /\ pending' = {pr \in (DOMAIN parsed.signed.targets) \X {"sha256", "sha512"} :
                                     pr[2] \in DOMAIN parsed.signed.targets[pr[1]]}
                  /\ UNCHANGED layoutErr
          /\ processed' = Append(processed, roleName)
          /\ UNCHANGED historyFiles
    /\ UNCHANGED <<fetchVars, runs>>

\* variant: a target is copied for one of its hashes only
CopyTargetOnce ==
    /\ pc = "targets"
    /\ pending # {}
    /\ \E pr \in pending :
       \E outputFile \in {PathJoin(<<outputTargetsDir, PathDir(pr[1]),
                                    HexString(curRole.signed.targets[pr[1]][pr[2]]) \o <<".">>
                                        \o PathBase(pr[1])>>)} :
       \E mk \in {MkdirAll(files, PathDir(outputFile))} :
       \E cp \in {copyFile(mk.fs, PathJoin(<<targetsDir, pr[1]>>), outputFile)} :
          IF mk.err # "" \/ cp.err # NoError
          THEN LayoutReturn(cp.err, mk.fs)
          ELSE /\ files' = cp.fs
               /\ pending' = {q \in pending : q[1] # pr[1]}
               /\ UNCHANGED <<pc, historyFiles, delegatedRoles, curRole, layoutErr>>
    /\ UNCHANGED <<fetchVars, processed, runs>>

\* variant: every copy goes directly into the output targets directory
CopyTargetFlat ==
    /\ pc = "targets"
    /\ pending # {}
    /\ \E pr \in pending :
       \E outputFile \in {PathJoin(<<outputTargetsDir,
                                    HexString(curRole.signed.targets[pr[1]][pr[2]]) \o <<".">>
                                        \o PathBase(pr[1])>>)} :
       \E mk \in {MkdirAll(files, PathDir(outputFile))} :
       \E cp \in {copyFile(mk.fs, PathJoin(<<targetsDir, pr[1]>>), outputFile)} :
          IF mk.err # "" \/ cp.err # NoError
          THEN LayoutReturn(cp.err, mk.fs)
          ELSE /\ files' = cp.fs
               /\ pending' = pending \ {pr}
               /\ UNCHANGED <<pc, historyFiles, delegatedRoles, curRole, layoutErr>>
    /\ UNCHANGED <<fetchVars, processed, runs>>

\* lines 90-106: one iteration of the inner loop; Go ranges over the
\* targets map and over each hashes map in an unspecified order, finishing
\* the hashes of one target before it takes the next
CopyTarget ==
    /\ pc = "targets"
    /\ pending # {}
    /\ \E pr \in pending :
       LET started == {tf \in DOMAIN curRole.signed.targets :
                          /\ \E q \in pending : q[1] = tf
                          /\ \E alg \in DOMAIN curRole.signed.targets[tf] : <<tf, alg>> \notin pending}
       IN  /\ started # {} => pr[1] \in started
           /\ \E tfName \in {pr[1]} :
              \E targetHash \in {curRole.signed.targets[pr[1]][pr[2]]} :
              \E outputFile \in {PathJoin(<<outputTargetsDir, PathDir(tfName),
                                           HexString(targetHash) \o <<".">> \o PathBase(tfName)>>)} :
              \E mk \in {MkdirAll(files, PathDir(outputFile))} :
              \E cp \in {copyFile(mk.fs, PathJoin(<<targetsDir, tfName>>), outputFile)} :
                 IF mk.err # ""
                 THEN LayoutReturn(Errorf("creating output directory", PathDir(outputFile), mk.err), files)
                 ELSE IF cp.err # NoError
                 THEN LayoutReturn(cp.err, mk.fs)
                 ELSE /\ files' = cp.fs
                      /\ pending' = pending \ {pr}
                      /\ UNCHANGED <<pc, historyFiles, delegatedRoles, curRole, layoutErr>>
    /\ UNCHANGED <<fetchVars, processed, runs>>

\* variant: the delegations of the processed role are not followed
EnqueueNothing ==
    /\ pc = "targets"
    /\ pending = {}
    /\ pc' = "roles"
    /\ UNCHANGED <<files, historyFiles, delegatedRoles, curRole, pending, layoutErr>>
    /\ UNCHANGED <<fetchVars, processed, runs>>

\* variant: a role joins the queue only if it was neither taken from the
\* queue before nor waits in it
EnqueueUnvisited ==
    /\ pc = "targets"
    /\ pending = {}
    /\ pc' = "roles"
    /\ delegatedRoles' =
          delegatedRoles \o SelectSeq(curRole.signed.roles,
                                     LAMBDA r : /\ \A i \in 1..Len(processed) : processed[i] # r
                                                /\ \A i \in 1..Len(delegatedRoles) : delegatedRoles[i] # r)
    /\ UNCHANGED <<files, historyFiles, curRole, pending, layoutErr>>
    /\ UNCHANGED <<fetchVars, processed, runs>>

\* lines 108-112: the delegated roles of the processed role join the queue
EnqueueDelegations ==
    /\ pc = "targets"
    /\ pending = {}
    /\ pc' = "roles"
    /\ delegatedRoles' = delegatedRoles \o curRole.signed.roles
    /\ UNCHANGED <<files, historyFiles, curRole, pending, layoutErr>>
    /\ UNCHANGED <<fetchVars, processed, runs>>

\* lines 68-70 and 115: the queue is empty and the call returns nil
LayoutDone ==
    /\ pc = "roles"
    /\ delegatedRoles = <<>>
    /\ LayoutReturn(NoError, files)
    /\ UNCHANGED <<fetchVars, processed, runs>>

\* the number of LayoutFromTUFOnCI calls made on one pair of directories
MaxRuns == 2

\* the caller calls LayoutFromTUFOnCI again with the same arguments after
\* a call returned
LayoutAgain ==
    /\ pc = "returned"
    /\ runs + 1 < MaxRuns
    /\ pc' = "start"
    /\ historyFiles' = <<>>
    /\ delegatedRoles' = <<>>
    /\ curRole' = [name |-> <<>>, signed |-> Documents[<<5>>]]
    /\ pending' = {}
    /\ layoutErr' = NoError
    /\ processed' = <<>>
    /\ runs' = runs + 1
    /\ UNCHANGED <<files, fetchVars>>

\* the largest number of inputs missing from a source layout
MaxMissing == 2

\* a complete tuf-on-ci checkout at /s: two roots, the three top-level
\* roles, the delegated role a, a note next to the roots and three targets
SourceTree ==
    LET dir == [isDir |-> TRUE, data |-> <<>>]
        file(data) == [isDir |-> FALSE, data |-> data]
    IN     (<<"/","s">> :> dir)
        @@ (<<"/","s","/","m","e","t","a","d","a","t","a">> :> dir)
        @@ (<<"/","s","/","m","e","t","a","d","a","t","a","/","r","o","o","t","_","h","i","s","t","o","r","y">> :> dir)
        @@ (<<"/","s","/","m","e","t","a","d","a","t","a","/","r","o","o","t","_","h","i","s","t","o","r","y","/","1",".","r","o","o","t",".","j","s","o","n">> :> file(<<1>>))
        @@ (<<"/","s","/","m","e","t","a","d","a","t","a","/","r","o","o","t","_","h","i","s","t","o","r","y","/","2",".","r","o","o","t",".","j","s","o","n">> :> file(<<2, 2>>))
        @@ (<<"/","s","/","m","e","t","a","d","a","t","a","/","r","o","o","t","_","h","i","s","t","o","r","y","/","n","o","t","e","s">> :> file(<<0>>))
        @@ (<<"/","s","/","m","e","t","a","d","a","t","a","/","t","i","m","e","s","t","a","m","p",".","j","s","o","n">> :> file(<<4>>))
        @@ (<<"/","s","/","m","e","t","a","d","a","t","a","/","s","n","a","p","s","h","o","t",".","j","s","o","n">> :> file(<<3, 3>>))
        @@ (<<"/","s","/","m","e","t","a","d","a","t","a","/","t","a","r","g","e","t","s",".","j","s","o","n">> :> file(<<5, 5, 5>>))
        @@ (<<"/","s","/","m","e","t","a","d","a","t","a","/","a",".","j","s","o","n">> :> file(<<6>>))
        @@ (<<"/","s","/","t","a","r","g","e","t","s">> :> dir)
        @@ (<<"/","s","/","t","a","r","g","e","t","s","/","f">> :> file(<<7>>))
        @@ (<<"/","s","/","t","a","r","g","e","t","s","/","s","u","b">> :> dir)
        @@ (<<"/","s","/","t","a","r","g","e","t","s","/","s","u","b","/","g">> :> file(<<8, 8>>))
        @@ (<<"/","s","/","t","a","r","g","e","t","s","/","k">> :> file(<<9>>))

\* the checkouts the converter is run on: the complete one with each of
\* the three targets.json documents, less up to MaxMissing of its entries
SourceLayouts ==
    LET removable == DOMAIN SourceTree \ {<<"/","s">>, <<"/","s","/","m","e","t","a","d","a","t","a">>, <<"/","s","/","t","a","r","g","e","t","s">>, <<"/","s","/","t","a","r","g","e","t","s","/","s","u","b">>,
                                          <<"/","s","/","m","e","t","a","d","a","t","a","/","r","o","o","t","_","h","i","s","t","o","r","y","/","1",".","r","o","o","t",".","j","s","o","n">>}
        under(q, gone) == \E g \in gone : q = g \/ HasPrefix(q, g \o <<"/">>)
        less(gone, doc) ==
            [q \in {x \in DOMAIN SourceTree : ~under(x, gone)} |->
                IF q = <<"/","s","/","m","e","t","a","d","a","t","a","/","t","a","r","g","e","t","s",".","j","s","o","n">> THEN [isDir |-> FALSE, data |-> doc]
                ELSE SourceTree[q]]
    IN  {less(gone, doc) : gone \in {g \in SUBSET removable : Cardinality(g) <= MaxMissing},
                           doc \in {<<5>>, <<5, 5>>, <<5, 5, 5>>}}

\* complete checkouts that differ in the delegations their role files
\* declare:
\*   targets -> a                                  a chain
\*   targets -> a, b;  a -> c;  b -> c             c is delegated to twice
\*   targets -> a;  a -> targets                   a cycle through targets
\*   targets -> a, b;  a -> targets;  b -> targets two cycles through targets
\*   targets -> a, b;  a -> c;  c -> a             a cycle below targets
GraphLayouts ==
    LET file(data) == [isDir |-> FALSE, data |-> data]
        with(roleFiles) ==
            [q \in DOMAIN roleFiles |-> file(roleFiles[q])] @@ SourceTree
        at(r) == <<"/","s","/","m","e","t","a","d","a","t","a","/">> \o r \o DotJson
    IN  { with(at(<<"t","a","r","g","e","t","s">>) :> <<5, 5, 5>>),
          with((at(<<"t","a","r","g","e","t","s">>) :> <<5, 5, 5, 5>>) @@ (at(<<"a">>) :> <<6, 6>>)
                  @@ (at(<<"b">>) :> <<6, 6, 6>>) @@ (at(<<"c">>) :> <<10>>)),
          with((at(<<"t","a","r","g","e","t","s">>) :> <<5, 5, 5>>) @@ (at(<<"a">>) :> <<11>>)),
          with((at(<<"t","a","r","g","e","t","s">>) :> <<5, 5, 5, 5>>) @@ (at(<<"a">>) :> <<11>>) @@ (at(<<"b">>) :> <<11>>)),
          with((at(<<"t","a","r","g","e","t","s">>) :> <<5, 5, 5, 5>>) @@ (at(<<"a">>) :> <<6, 6>>)
                  @@ (at(<<"b">>) :> <<6>>) @@ (at(<<"c">>) :> <<12>>)) }

----------------------------------------------------------------------------
(* Client sessions: NewClientWithOptions                                   *)

\* the largest number of sessions created
MaxClients == 2

\* three local repositories: /a/m with a root that does not declare
\* consistent snapshots, /b/m in tuf-on-ci git layout and /c/m, both with a
\* root that declares them
ClientTree ==
    LET dir == [isDir |-> TRUE, data |-> <<>>]
        file(data) == [isDir |-> FALSE, data |-> data]
    IN     (<<"/","a">> :> dir) @@ (<<"/","a","/","m">> :> dir)
        @@ (<<"/","a","/","m","/","1",".","r","o","o","t",".","j","s","o","n">> :> file(<<1>>))
        @@ (<<"/","b">> :> dir) @@ (<<"/","b","/","m">> :> dir)
        @@ (<<"/","b","/","m","/","1",".","r","o","o","t",".","j","s","o","n">> :> file(<<2, 2>>))
        @@ (<<"/","b","/","m","/","t","i","m","e","s","t","a","m","p",".","j","s","o","n">> :> file(<<4>>))
        @@ (<<"/","b","/","m","/","s","n","a","p","s","h","o","t",".","j","s","o","n">> :> file(<<3, 3>>))
        @@ (<<"/","b","/","m","/","t","a","r","g","e","t","s",".","j","s","o","n">> :> file(<<5>>))
        @@ (<<"/","c">> :> dir) @@ (<<"/","c","/","m">> :> dir)
        @@ (<<"/","c","/","m","/","r","o","o","t",".","j","s","o","n">> :> file(<<2, 2>>))

\* the metadataURL arguments: a relative and two absolute local paths, an
\* HTTPS repository and a relative path without the "./" prefix
ClientRequests == <<<<".","/","m">>, <<"/","a","/","m">>, <<"/","c","/","m">>, <<"h","t","t","p","s",":","/","/","h","/","r","/","m">>, <<"m">>>>

\* os.Stat: the error, nil for a file and for a directory
Stat(fs, name) == LET e == ReadFile(fs, name).err IN IF e = "EISDIR" THEN "" ELSE e

\* signed.consistent_snapshot of the root documents, by file content
ConsistentSnapshot == (<<1>> :> FALSE) @@ (<<2, 2>> :> TRUE)

\* lines 229-251: the trusted root is put into the cache unless one is
\* there: copied from 1.root.json or else root.json of a local repository,
\* downloaded from metadataURL/1.root.json otherwise
SeedRoot(fs, site, isLocal, absPath, metadataURL, rootPath) ==
    LET versioned == PathJoin(<<absPath, <<"1",".","r","o","o","t",".","j","s","o","n">>>>)
        source == ReadFile(fs, IF IsNotExist(Stat(fs, versioned))
                               THEN PathJoin(<<absPath, <<"r","o","o","t",".","j","s","o","n">>>>) ELSE versioned)
        rootURL == metadataURL \o <<"/","1",".","r","o","o","t",".","j","s","o","n">>
        resp == IF rootURL \in DOMAIN site THEN site[rootURL] ELSE [status |-> 404, body |-> <<>>]
    IN  IF ~IsNotExist(Stat(fs, rootPath)) THEN [err |-> "", fs |-> fs]
        ELSE IF isLocal
        THEN IF source.err # "" THEN [err |-> "failed to read initial root", fs |-> fs]
             ELSE WriteFile(fs, rootPath, source.data)
        ELSE IF UrlParse(rootURL).scheme \notin {<<"h","t","t","p">>, <<"h","t","t","p","s">>} \/ resp.status # 200
        THEN [err |-> "failed to download initial root", fs |-> fs]
        ELSE WriteFile(fs, rootPath, resp.body)

\* NewClientWithOptions called by a command of the CLI, in a process whose
\* working directory is cwd; the OCI branch of line 190 is not taken for
\* the arguments of the model. The cache identifier, the hex of the first
\* 8 bytes of sha256(metadataURL), is a distinct text for each distinct
\* argument; the home directory is /h
NewClientWithOptions(cwd, metadataURL0, options) ==
    /\ Len(clients) < MaxClients
    /\ \E cacheID \in {HexString(<<CHOOSE i \in DOMAIN ClientRequests : ClientRequests[i] = metadataURL0>>)} :
       \E cacheDir \in {PathJoin(<<<<"/","h">>, <<".","t","u","f","z","y">>, <<"c","a","c","h","e">>, cacheID>>)} :
       \E mk1 \in {MkdirAll(files, cacheDir)} :
       \E isLocal \in {\/ metadataURL0[1] = "/"
                       \/ metadataURL0 \in {<<".">>, <<".",".">>}
                       \/ HasPrefix(metadataURL0, <<".","/">>)
                       \/ HasPrefix(metadataURL0, <<".",".","/">>)} :
       \E absPath \in {IF metadataURL0[1] = "/" THEN PathClean(metadataURL0)
                       ELSE PathJoin(<<cwd, metadataURL0>>)} :
       \E parsedURL \in {UrlParse(metadataURL0)} :
       \E metadataURL \in {IF isLocal THEN <<"f","i","l","e",":","/","/">> \o absPath ELSE metadataURL0} :
       \E targetsURL \in {IF isLocal THEN <<"f","i","l","e",":","/","/">> \o PathJoin(<<PathDir(absPath), <<"t","a","r","g","e","t","s">>>>)
                          ELSE UrlString([parsedURL EXCEPT !.path = PathDir(@) \o <<"/","t","a","r","g","e","t","s">>])} :
       \E localMetadataDir \in {PathJoin(<<cacheDir, <<"m","e","t","a","d","a","t","a">>>>)} :
       \E mk2 \in {MkdirAll(mk1.fs, localMetadataDir)} :
       \E rootPath \in {PathJoin(<<localMetadataDir, <<"r","o","o","t",".","j","s","o","n">>>>)} :
       \E seeded \in {SeedRoot(mk2.fs, web, isLocal, absPath, metadataURL, rootPath)} :
       \E rootBytes \in {ReadFile(seeded.fs, rootPath)} :
       \E tufOnCiGit \in {\/ /\ isLocal
                             /\ Stat(seeded.fs, PathJoin(<<absPath, <<"t","i","m","e","s","t","a","m","p",".","j","s","o","n">>>>)) = ""
                             /\ Stat(seeded.fs, PathJoin(<<absPath, <<"s","n","a","p","s","h","o","t",".","j","s","o","n">>>>)) = ""
                             /\ Stat(seeded.fs, PathJoin(<<absPath, <<"t","a","r","g","e","t","s",".","j","s","o","n">>>>)) = ""
                          \/ options.TufOnCiGit} :
          IF mk1.err # "" THEN UNCHANGED <<files, clients>>
          ELSE IF (~isLocal /\ ~parsedURL.ok) \/ mk2.err # ""
          THEN files' = mk1.fs /\ UNCHANGED clients
          ELSE IF \/ seeded.err # ""
                  \/ rootBytes.err # ""
                  \/ rootBytes.data \notin DOMAIN ConsistentSnapshot
          THEN files' = seeded.fs /\ UNCHANGED clients
          ELSE \E prefixTargetsWithHash \in {IF tufOnCiGit THEN FALSE
                                             ELSE ConsistentSnapshot[rootBytes.data]} :
                  /\ files' = seeded.fs
                  /\ clients' = Append(clients,
                        [metadataURL |-> metadataURL, targetsURL |-> targetsURL,
                         cacheDir |-> cacheDir, tufOnCiGit |-> tufOnCiGit,
                         consistentSnapshot |-> ConsistentSnapshot[rootBytes.data],
                         hashPrefixes |-> prefixTargetsWithHash,
                         cfg |-> [LocalMetadataDir |-> localMetadataDir,
                                  PrefixTargetsWithHash |-> prefixTargetsWithHash,
                                  rootBytes |-> rootBytes.data],
                         options |-> options])
    /\ UNCHANGED <<d, cache, timeout, registry, last, calls, web, fnIn, fnOut, tufIn, tufOut, layoutVars>>

----------------------------------------------------------------------------
(* specifications                                                          *)

vars == <<d, cache, timeout, registry, last, calls, files, web, fnIn, fnOut, tufIn, tufOut,
         pc, historyFiles, delegatedRoles, curRole, pending, layoutErr, processed, runs,
         clients>>

NoFnIn == [fn |-> "none", arg |-> <<>>]

NoTufIn == [urlPath |-> <<>>, maxLength |-> 0, httpFails |-> FALSE, metadataBaseURL |-> <<>>]

\* no conversion has been started
NoLayout ==
    /\ pc = "start"
    /\ historyFiles = <<>>
    /\ delegatedRoles = <<>>
    /\ curRole = [name |-> <<>>, signed |-> Documents[<<5>>]]
    /\ pending = {}
    /\ layoutErr = NoError
    /\ processed = <<>>
    /\ runs = 0

\* a fresh RegistryFetcher in front of its registry
InitRegistry ==
    /\ d \in Fetchers
    /\ cache = <<>>
    /\ timeout = 0
    /\ registry = RegistryOf(d)
    /\ last = NoCall
    /\ calls = 0

InitFiles ==
    /\ files = WorkingTree
    /\ web = WebSite

\* sequences of DownloadFile calls on one RegistryFetcher, the one whose
\* metadata locators have three ':'-separated parts and whose targets
\* locators have two; the registry backend reads no local file and no web
\* server
Init ==
    /\ InitRegistry
    /\ NoLayout
    /\ clients = <<>>
    /\ d = NewRegistryFetcher(PortedMetadata.metadataURL, PortedMetadata.targetsURL)
    /\ files = <<>>
    /\ web = <<>>
    /\ fnIn = NoFnIn
    /\ fnOut = NoFnOut
    /\ tufIn = NoTufIn
    /\ tufOut = NoTufOut

Next ==
    \E urlPath \in RequestsOf(d), maxLength \in MaxLengths, tmo \in Timeouts, failAt \in 0..MaxTrips :
        DownloadFile(urlPath, maxLength, tmo, failAt)

Spec == Init /\ [][Next]_vars

\* parseImgRef and roleFromConsistentName applied to one input
InitParse ==
    /\ InitRegistry
    /\ NoLayout
    /\ clients = <<>>
    /\ InitFiles
    /\ \/ fnIn \in [fn : {"parseImgRef"}, arg : ParseInputs(d)]
       \/ fnIn \in [fn : {"roleFromConsistentName"}, arg : FileNames]
    /\ fnOut = NoFnOut
    /\ tufIn = NoTufIn
    /\ tufOut = NoTufOut

NextParse == ApplyParseImgRef \/ ApplyRoleFromConsistentName

SpecParse == InitParse /\ [][NextParse]_vars

\* one TufOnCiFetcher.DownloadFile call
InitTufOnCi ==
    /\ InitRegistry
    /\ NoLayout
    /\ clients = <<>>
    /\ InitFiles
    /\ fnIn = NoFnIn
    /\ fnOut = NoFnOut
    /\ tufIn \in [urlPath : TufRequests, maxLength : TufMaxLengths, httpFails : BOOLEAN,
                  metadataBaseURL : {<<"f","i","l","e",":","/","/","/","r","/","m">>}]
    /\ tufOut = NoTufOut

NextTufOnCi == TufOnCiDownloadFile

SpecTufOnCi == InitTufOnCi /\ [][NextTufOnCi]_vars

\* one TufOnCiFetcher.DownloadFile call on a fetcher made for one of
\* several metadata base URLs
InitTufOnCiBases ==
    /\ InitRegistry
    /\ d = NewRegistryFetcher(PortedMetadata.metadataURL, PortedMetadata.targetsURL)
    /\ NoLayout
    /\ clients = <<>>
    /\ InitFiles
    /\ fnIn = NoFnIn
    /\ fnOut = NoFnOut
    /\ tufIn \in [urlPath : TufRequests, maxLength : {MaxInt}, httpFails : {FALSE},
                  metadataBaseURL : {<<"f","i","l","e",":","/","/","/","r","/","m">>, <<"h","t","t","p","s",":","/","/","h","/","r","/","m">>, <<"f","i","l","e",":","/","/","/","r","/","t">>}]
    /\ tufOut = NoTufOut

SpecTufOnCiBases == InitTufOnCiBases /\ [][TufOnCiDownloadFile]_vars

\* one FilesystemFetcher.DownloadFile call
InitFilesystem ==
    /\ InitRegistry
    /\ d = NewRegistryFetcher(PortedMetadata.metadataURL, PortedMetadata.targetsURL)
    /\ NoLayout
    /\ clients = <<>>
    /\ files = WorkingTree
    /\ web = FsWebSite
    /\ fnIn \in [fn : {"DownloadFile"},
                 arg : [urlPath : FsRequests, maxLength : TufMaxLengths, timeout : Timeouts,
                        httpFails : BOOLEAN]]
    /\ fnOut = NoFnOut
    /\ tufIn = NoTufIn
    /\ tufOut = NoTufOut

SpecFilesystem == InitFilesystem /\ [][ApplyFilesystemDownloadFile]_vars

\* sessions created one after another by processes started in different
\* working directories, sharing one home directory
InitClient ==
    /\ InitRegistry
    /\ d = NewRegistryFetcher(PortedMetadata.metadataURL, PortedMetadata.targetsURL)
    /\ NoLayout
    /\ clients = <<>>
    /\ files = ClientTree
    /\ web = WebSite
    /\ fnIn = NoFnIn
    /\ fnOut = NoFnOut
    /\ tufIn = NoTufIn
    /\ tufOut = NoTufOut

NextClient ==
    \E cwd \in {<<"/","a">>, <<"/","b">>, <<"/","c">>}, i \in DOMAIN ClientRequests,
       options \in [PrefixTargetsWithHash : BOOLEAN, TufOnCiGit : BOOLEAN, TargetsURL : {<<>>}] :
        NewClientWithOptions(cwd, ClientRequests[i], options)

SpecClient == InitClient /\ [][NextClient]_vars

\* one LayoutFromTUFOnCI call on a source layout, into a directory that
\* does not exist yet
InitLayout ==
    /\ d = NewRegistryFetcher(PortedMetadata.metadataURL, PortedMetadata.targetsURL)
    /\ cache = <<>>
    /\ timeout = 0
    /\ registry = <<>>
    /\ last = NoCall
    /\ calls = 0
    /\ web = <<>>
    /\ fnIn = NoFnIn
    /\ fnOut = NoFnOut
    /\ tufIn = NoTufIn
    /\ tufOut = NoTufOut
    /\ files \in SourceLayouts
    /\ NoLayout
    /\ clients = <<>>

NextLayout ==
    \/ LayoutBegin
    \/ CopyRootHistory
    \/ CopyTimestamp
    \/ CopySnapshot
    \/ ProcessRole
    \/ CopyTarget
    \/ EnqueueDelegations
    \/ LayoutDone

SpecLayout == InitLayout /\ [][NextLayout]_vars

\* LayoutFromTUFOnCI called, and called again, on a complete source layout
\* with one of the delegation graphs
InitGraphs ==
    /\ d = NewRegistryFetcher(PortedMetadata.metadataURL, PortedMetadata.targetsURL)
    /\ cache = <<>>
    /\ timeout = 0
    /\ registry = <<>>
    /\ last = NoCall
    /\ calls = 0
    /\ web = <<>>
    /\ fnIn = NoFnIn
    /\ fnOut = NoFnOut
    /\ tufIn = NoTufIn
    /\ tufOut = NoTufOut
    /\ files \in GraphLayouts
    /\ NoLayout
    /\ clients = <<>>

SpecGraphs == InitGraphs /\ [][NextLayout \/ LayoutAgain]_vars

\* the converter runs on until it returns: no statement of the call waits
\* on anything.  This is weak fairness of the steps, with the states in
\* which the behaviour may stop written out: the call has returned (the
\* caller need not call again), or MaxProcessed role names were taken
SpecGraphsFair ==
    SpecGraphs /\ (<>[](pc = "returned" \/ Len(processed) >= MaxProcessed) \/ []<><<TRUE>>_vars)


----------------------------------------------------------------------------
(* Registry backend: properties of DownloadFile                            *)

\* the call observed in last returned an error of the kind
Returned(kind) == last.kind = kind /\ last.data = <<>>

\* the layer the last call resolved its address to
ResolvedLayer == registry.layers[last.layerRef]

\* the last call went as far as the content layer of its address
ReachedLayer == last.layerRef # <<>> /\ last.layerRef \in DOMAIN registry.layers

\* C1: every call whose resolved content has a declared size or an actual
\* byte count greater than the call's maxLength returns LengthMismatch and
\* no bytes, whatever earlier calls on the instance fetched (stated for
\* calls in which no registry round trip failed).
C1_LengthAlwaysEnforced ==
    (/\ ReachedLayer
     /\ last.kind # "Transport"
     /\ \/ ResolvedLayer.size > last.maxLength
        \/ Len(ResolvedLayer.content) > last.maxLength)
    => Returned("LengthMismatch")

\* the manifest locators among the round trips are pairwise different
DistinctManifestTrips(trips) ==
    \A i, j \in 1..Len(trips) :
        (trips[i].op = "manifest" /\ trips[j].op = "manifest" /\ trips[i].ref = trips[j].ref)
        => i = j

\* the step is a second call for the address of the call before it
SecondCallSameAddress == calls' = calls + 1 /\ last.kind # "none" /\ last'.urlPath = last.urlPath

\* C2 as stated: two calls with the same address return identical bytes,
\* together perform at most one manifest pull and at most one layer pull,
\* and the second call makes no registry round trip.
C2_AtMostOneManifestPull ==
    [][(SecondCallSameAddress /\ last.kind = "ok" /\ last'.kind = "ok")
       => /\ last'.data = last.data
          /\ CountOp(last.trips, "manifest") + CountOp(last'.trips, "manifest") <= 1
          /\ CountOp(last.trips, "layer") + CountOp(last'.trips, "layer") <= 1
          /\ last'.trips = <<>>]_vars

\* C2 amended: when a call returned bytes, the next call with the same
\* address returns the same bytes without a registry round trip; the two
\* calls together pull each manifest on the resolution path at most once
\* (the tagged manifest and, below an index, the sub-manifest) and the
\* content layer at most once.
C2_RepeatServedFromCache ==
    [][(SecondCallSameAddress /\ last.kind = "ok")
       => /\ last'.kind = "ok"
          /\ last'.data = last.data
          /\ last'.trips = <<>>
          /\ DistinctManifestTrips(last.trips \o last'.trips)
          /\ CountOp(last.trips \o last'.trips, "manifest") <= 2
          /\ CountOp(last.trips \o last'.trips, "layer") <= 1]_vars

\* a repeated call for the target below a subdirectory, served from the cache
C2_Witness ==
    /\ calls = 2
    /\ last.kind = "ok"
    /\ last.fileName = <<"s","u","b","/","g",".","t","x","t">>
    /\ last.data = <<9>>
    /\ last.trips = <<>>

\* the manifest at the last call's repository:tag is an image manifest with
\* a layer annotated with the requested file name
StoredLayerRefs ==
    LET mf == registry.manifests[last.imgRef]
        repo == SubSeq(last.imgRef, 1, LastIndexByte(last.imgRef, ":") - 1)
    IN  IF last.imgRef \in DOMAIN registry.manifests /\ mf.mediaType = "OCIManifestSchema1"
        THEN { repo \o <<"@">> \o mf.layers[i].digest :
                 i \in {j \in 1..Len(mf.layers) : mf.layers[j].annotation = last.fileName} }
        ELSE {}

\* C3: for every file stored as a layer annotated with the file name in the
\* manifest at the repository:tag the address resolves to, a call with
\* maxLength at least the file's size (here: at least the declared size and
\* the content length) returns exactly the stored bytes (stated for calls in
\* which no registry round trip failed).
C3_StoredBytesReturned ==
    \A ref \in StoredLayerRefs :
        (/\ last.kind \notin {"none", "Transport"}
         /\ ref \in DOMAIN registry.layers
         /\ registry.layers[ref].size <= last.maxLength
         /\ Len(registry.layers[ref].content) <= last.maxLength)
        => last.kind = "ok" /\ last.data = registry.layers[ref].content

\* the descriptors findFileInManifest scans in a manifest
Candidates(mf) == IF mf.mediaType = "OCIImageIndex" THEN mf.manifests ELSE mf.layers

\* the last call obtained the manifest of its repository:tag, and no
\* candidate descriptor in it is annotated with the requested file name
AbsentFromManifest ==
    /\ last.kind \notin {"none", "Configuration"}
    /\ last.imgRef \in DOMAIN cache
    /\ \A i \in 1..Len(Candidates(cache[last.imgRef])) :
          Candidates(cache[last.imgRef])[i].annotation # last.fileName

\* C4: a call returns NotFound whenever no candidate descriptor of the
\* resolved manifest is annotated with the requested file name, under the
\* metadata and the targets repository alike, and pulls no layer then.
C4_AbsentIsNotFound ==
    AbsentFromManifest => Returned("NotFound") /\ CountOp(last.trips, "layer") = 0

\* an absent target below a subdirectory, looked up in a pulled index
C4_Witness ==
    /\ AbsentFromManifest
    /\ last.fileName = <<"s","u","b","/","q",".","t","x","t">>
    /\ HasPrefix(last.urlPath, d.targetsURL)
    /\ CountOp(last.trips, "manifest") = 1

\* the address falls under neither configured URL
UnderNeitherURL(urlPath) == ~HasPrefix(urlPath, d.metadataURL) /\ ~HasPrefix(urlPath, d.targetsURL)

\* C5: a call for an address under neither the metadata URL nor the targets
\* URL returns a Configuration error, makes no registry round trip and
\* leaves the cache unchanged.
C5_OutsideIsConfigurationError ==
    [][(calls' = calls + 1 /\ UnderNeitherURL(last'.urlPath))
       => /\ last'.kind = "Configuration"
          /\ last'.data = <<>>
          /\ last'.trips = <<>>
          /\ cache' = cache]_vars

\* a call for an outside address on an instance whose cache holds entries
C5_Witness ==
    /\ calls = 2
    /\ UnderNeitherURL(last.urlPath)
    /\ last.kind = "Configuration"
    /\ cache # <<>>

----------------------------------------------------------------------------
(* Registry backend: properties of the address parsing                     *)

\* parseImgRef was applied to the address in fnIn
Parsed == fnOut.done /\ fnIn.fn = "parseImgRef"

\* C6: for a targets request the targets prefix is stripped; the file name
\* searched for is the whole remainder, the tag is the remainder's first path
\* segment (the whole remainder when it has no '/'), and the repository is
\* the configured targets repository.
C6_TargetsRequestParsing ==
    (Parsed /\ HasPrefix(fnIn.arg, d.targetsURL \o <<"/">>))
    => LET remainder == SubSeq(fnIn.arg, Len(d.targetsURL) + 2, Len(fnIn.arg))
       IN  /\ ~fnOut.err
           /\ fnOut.fileName = remainder
           /\ fnOut.imgRef = d.targetsRepo \o <<":">> \o Split(remainder, "/")[1]

\* a target below a subdirectory
C6_Witness ==
    /\ Parsed
    /\ fnIn.arg = d.targetsURL \o <<"/","s","u","b","/","f",".","t","x","t">>
    /\ fnOut.imgRef = d.targetsRepo \o <<":","s","u","b">>
    /\ fnOut.fileName = <<"s","u","b","/","f",".","t","x","t">>

\* the role name C7 describes: the file name without the ".json" suffix and
\* without a leading "{version}." prefix when that prefix is numeric
NameWithoutVersion(filename) ==
    LET name == TrimSuffix(filename, DotJson)
        i == IndexByte(name, ".")
    IN  IF i > 1 /\ \A j \in 1..(i - 1) : name[j] \in Digits
        THEN SubSeq(name, i + 1, Len(name))
        ELSE name

\* C7: the role name roleFromConsistentName derives is the file name with
\* the ".json" suffix removed and a leading numeric "{version}." prefix
\* removed, and nothing else removed, for every file name.
C7_RoleIsNameWithoutVersion ==
    (fnOut.done /\ fnIn.fn = "roleFromConsistentName")
    => fnOut.role = NameWithoutVersion(fnIn.arg)

\* C8: a metadata request resolves to metadataRepo:<configured metadata tag>
\* when the derived role name is root, snapshot, targets or timestamp, and
\* to metadataRepo:<role name> otherwise; the file name searched for is the
\* request's base file name.
C8_MetadataRequestParsing ==
    (Parsed /\ HasPrefix(fnIn.arg, d.metadataURL) /\ ~HasPrefix(fnIn.arg, d.targetsURL))
    => LET base == PathBase(fnIn.arg)
           role == roleFromConsistentName(base)
           tag == IF role \in {<<"r","o","o","t">>, <<"s","n","a","p","s","h","o","t">>, <<"t","a","r","g","e","t","s">>, <<"t","i","m","e","s","t","a","m","p">>}
                  THEN d.metadataTag ELSE role
       IN  /\ ~fnOut.err
           /\ fnOut.fileName = base
           /\ fnOut.imgRef = d.metadataRepo \o <<":">> \o tag

\* a versioned top-level role file resolved to the metadata tag
C8_Witness ==
    /\ Parsed
    /\ fnIn.arg = d.metadataURL \o <<"/","2",".","t","i","m","e","s","t","a","m","p",".","j","s","o","n">>
    /\ fnOut.imgRef = d.metadataRepo \o <<":">> \o d.metadataTag
    /\ fnOut.fileName = <<"2",".","t","i","m","e","s","t","a","m","p",".","j","s","o","n">>

----------------------------------------------------------------------------
(* Git-layout backend: properties of the rewrite                           *)

\* a version number as the trust engine writes it: decimal digits without
\* a leading zero
IsNumeral(v) == v # <<>> /\ \A i \in 1..Len(v) : v[i] \in Digits

IsVersionNumber(v) == IsNumeral(v) /\ (v[1] # "0" \/ Len(v) = 1)

GreaterThanOne(v) == IsVersionNumber(v) /\ v \notin {<<"0">>, <<"1">>}

\* the digits of the version prefixes of the model
VersionTexts == { SubSeq(v, 1, Len(v) - 1) : v \in VersionPrefixes \ {<<>>} }

\* the request for a file in a directory; the empty directory stands for a
\* request that is a bare file name
TufRequestOf(dir, f) == IF dir = <<>> THEN f ELSE dir \o <<"/">> \o f

\* the directory as URL.String writes it once its path is cleaned
CleanedDir(dir) == UrlString([UrlParse(dir) EXCEPT !.path = PathClean(@)])

InDir(dir, f) == IF dir = <<>> THEN f ELSE CleanedDir(dir) \o <<"/">> \o f

\* the call in tufOut was for file f in directory dir
TufCallFor(dir, f) == tufOut.done /\ tufIn.urlPath = TufRequestOf(dir, f)

\* the request is a URL that net/url accepts
WellFormed == UrlParse(tufIn.urlPath).ok

\* the call failed on the address before any file or server was read
RejectedAsInvalid == tufOut.kind = "InvalidURL" /\ tufOut.data = <<>>

\* C9: a request for 1.root.json is left unchanged (same directory, same
\* file; the address itself when its path is already clean), and a request
\* for N.root.json with N > 1 is rewritten to root_history/N.root.json in
\* the same directory.  An address net/url rejects is passed on as it is
\* and the call fails on it, so it is served from no directory at all.
C9_RootHistoryRewrite ==
    \A dir \in TufDirs \cup {<<>>}, N \in VersionTexts :
        LET f == N \o <<".","r","o","o","t",".","j","s","o","n">>
        IN  /\ (TufCallFor(dir, f) /\ WellFormed)
                => /\ N = <<"1">> => tufOut.mappedURL = InDir(dir, f)
                   /\ (N = <<"1">> /\ InDir(dir, f) = TufRequestOf(dir, f))
                         => tufOut.mappedURL = tufIn.urlPath
                   /\ GreaterThanOne(N)
                         => tufOut.mappedURL = InDir(dir, <<"r","o","o","t","_","h","i","s","t","o","r","y","/">> \o f)
            /\ (TufCallFor(dir, f) /\ ~WellFormed /\ IsVersionNumber(N))
                => RejectedAsInvalid

\* version 2 of the root served from the history directory
C9_Witness ==
    /\ tufOut.done
    /\ tufIn.urlPath = <<"f","i","l","e",":","/","/","/","r","/","m","/","2",".","r","o","o","t",".","j","s","o","n">>
    /\ tufOut.mappedURL = <<"f","i","l","e",":","/","/","/","r","/","m","/","r","o","o","t","_","h","i","s","t","o","r","y","/","2",".","r","o","o","t",".","j","s","o","n">>
    /\ tufOut.kind = "ok"
    /\ tufOut.data = <<2, 2>>

\* C10: for snapshot, timestamp and targets and every version number N,
\* N.<role>.json is rewritten to <role>.json in the same directory, so the
\* call is served what a request for the current file is served, whatever N.
C10_CurrentFileServed ==
    \A dir \in TufDirs \cup {<<>>}, N \in VersionTexts, role \in {<<"s","n","a","p","s","h","o","t">>, <<"t","i","m","e","s","t","a","m","p">>, <<"t","a","r","g","e","t","s">>} :
        LET current == InDir(dir, role \o DotJson)
            res == FilesystemDownloadFile(current, tufIn.maxLength, tufIn.httpFails)
        IN  (TufCallFor(dir, N \o <<".">> \o role \o DotJson) /\ WellFormed /\ IsNumeral(N))
            => /\ tufOut.mappedURL = current
               /\ tufOut.kind = res.kind
               /\ tufOut.status = res.status
               /\ tufOut.data = res.data
               /\ (dir = <<"f","i","l","e",":","/","/","/","r","/","m">> /\ tufOut.kind = "ok")
                     => tufOut.data = files[<<"/","r","/","m","/">> \o role \o DotJson].data

\* version 10 of the snapshot served from the current snapshot file
C10_Witness ==
    /\ tufOut.done
    /\ tufIn.urlPath = <<"f","i","l","e",":","/","/","/","r","/","m","/","1","0",".","s","n","a","p","s","h","o","t",".","j","s","o","n">>
    /\ tufOut.mappedURL = <<"f","i","l","e",":","/","/","/","r","/","m","/","s","n","a","p","s","h","o","t",".","j","s","o","n">>
    /\ tufOut.kind = "ok"
    /\ tufOut.data = <<3, 3>>

\* the file name of the request as written: what follows the last '/'
RequestedName == SubSeq(tufIn.urlPath, LastIndexByte(tufIn.urlPath, "/") + 1, Len(tufIn.urlPath))

\* the file name has the form N.root.json, N.snapshot.json,
\* N.timestamp.json or N.targets.json
IsVersionedName(name) ==
    \E role \in {<<"r","o","o","t">>, <<"s","n","a","p","s","h","o","t">>, <<"t","i","m","e","s","t","a","m","p">>, <<"t","a","r","g","e","t","s">>} :
        /\ HasSuffix(name, <<".">> \o role \o DotJson)
        /\ IsNumeral(SubSeq(name, 1, Len(name) - Len(<<".">> \o role \o DotJson)))

\* C11: a request whose file name is not of the form N.root.json,
\* N.snapshot.json, N.timestamp.json or N.targets.json reaches the
\* filesystem backend with its address unmodified; a rewritten request keeps
\* its scheme, host and directory, except that root_history is appended to
\* the directory for a root; and the mapped address is a function of the
\* request alone, whatever the other arguments and the fetcher.
C11_OthersPassThrough ==
    tufOut.done
    => LET from == UrlParse(tufIn.urlPath)
           to == UrlParse(tufOut.mappedURL)
           res == FilesystemDownloadFile(tufIn.urlPath, tufIn.maxLength, tufIn.httpFails)
       IN  /\ ~IsVersionedName(RequestedName)
              => /\ tufOut.mappedURL = tufIn.urlPath
                 /\ tufOut.kind = res.kind
                 /\ tufOut.status = res.status
                 /\ tufOut.data = res.data
           /\ tufOut.mappedURL # tufIn.urlPath
              => /\ IsVersionedName(RequestedName)
                 /\ to.ok
                 /\ to.scheme = from.scheme
                 /\ to.host = from.host
                 /\ PathDir(to.path) \in {PathDir(from.path),
                                          PathJoin(<<PathDir(from.path), RootHistoryDir>>)}
                 /\ PathDir(to.path) # PathDir(from.path)
                       => HasSuffix(RequestedName, <<".","r","o","o","t",".","j","s","o","n">>)
           /\ tufOut.mappedURL = mapTufOnCiURL(NewTufOnCiFetcher(tufIn.metadataBaseURL), tufIn.urlPath)

\* a delegated role's file, in a directory written with a doubled separator,
\* read through the unmodified address
C11_Witness ==
    /\ tufOut.done
    /\ tufIn.urlPath = <<"f","i","l","e",":","/","/","/","r","/","/","m","/","a","b",".","j","s","o","n">>
    /\ tufOut.mappedURL = <<"f","i","l","e",":","/","/","/","r","/","/","m","/","a","b",".","j","s","o","n">>
    /\ tufOut.kind = "ok"
    /\ tufOut.data = <<6>>

----------------------------------------------------------------------------
(* Layout converter: properties of LayoutFromTUFOnCI                       *)

\* the call has returned nil
Succeeded == pc = "returned" /\ layoutErr = NoError

\* a regular file with these bytes is at this place
HasFile(name, data) == name \in DOMAIN files /\ ~files[name].isDir /\ files[name].data = data

\* the bytes of a file of the source metadata directory
SourceMetadata(name) == files[<<"/","s","/","m","e","t","a","d","a","t","a","/">> \o name].data

\* the roles reachable from "targets" through the delegations the source
\* role files declare
RECURSIVE RolesFrom(_)
RolesFrom(known) ==
    LET declared(r) == IF <<"/","s","/","m","e","t","a","d","a","t","a","/">> \o r \o <<".","j","s","o","n">> \in DOMAIN files
                       THEN Documents[SourceMetadata(r \o <<".","j","s","o","n">>)].roles ELSE <<>>
        more == known \cup UNION {{declared(r)[i] : i \in 1..Len(declared(r))} : r \in known}
    IN  IF more = known THEN known ELSE RolesFrom(more)

ReachableRoles == RolesFrom({<<"t","a","r","g","e","t","s">>})

\* C12: after a successful conversion the output metadata directory holds
\* timestamp.json with the source's bytes, V.snapshot.json with the source
\* snapshot's bytes for the version V that snapshot declares, and for every
\* role reachable from targets through delegations V.role.json with the
\* bytes of the source role.json for the version V that file declares
C12_OutputMetadata ==
    Succeeded =>
        /\ HasFile(<<"/","o","/","m","e","t","a","d","a","t","a","/","t","i","m","e","s","t","a","m","p",".","j","s","o","n">>, SourceMetadata(<<"t","i","m","e","s","t","a","m","p",".","j","s","o","n">>))
        /\ HasFile(<<"/","o","/","m","e","t","a","d","a","t","a","/">> \o Itoa(Documents[SourceMetadata(<<"s","n","a","p","s","h","o","t",".","j","s","o","n">>)].version)
                        \o <<".","s","n","a","p","s","h","o","t",".","j","s","o","n">>,
                   SourceMetadata(<<"s","n","a","p","s","h","o","t",".","j","s","o","n">>))
        /\ \A r \in ReachableRoles :
               HasFile(<<"/","o","/","m","e","t","a","d","a","t","a","/">> \o Itoa(Documents[SourceMetadata(r \o <<".","j","s","o","n">>)].version)
                           \o <<".">> \o r \o <<".","j","s","o","n">>,
                       SourceMetadata(r \o <<".","j","s","o","n">>))

\* a conversion of a layout with the delegated role a succeeded
C12_Witness ==
    /\ Succeeded
    /\ ReachableRoles = {<<"t","a","r","g","e","t","s">>, <<"a">>}
    /\ HasFile(<<"/","o","/","m","e","t","a","d","a","t","a","/","t","i","m","e","s","t","a","m","p",".","j","s","o","n">>, <<4>>)
    /\ HasFile(<<"/","o","/","m","e","t","a","d","a","t","a","/","1","2",".","s","n","a","p","s","h","o","t",".","j","s","o","n">>, <<3, 3>>)
    /\ HasFile(<<"/","o","/","m","e","t","a","d","a","t","a","/","3",".","t","a","r","g","e","t","s",".","j","s","o","n">>, <<5, 5, 5>>)
    /\ HasFile(<<"/","o","/","m","e","t","a","d","a","t","a","/","2",".","a",".","j","s","o","n">>, <<6>>)

\* the regular files below the output targets directory
OutputTargets == {q \in DOMAIN files : HasPrefix(q, <<"/","o","/","t","a","r","g","e","t","s","/">>) /\ ~files[q].isDir}

\* the targets the reachable roles declare, each with its declared hashes
DeclaredTargets ==
    LET of(r) == IF <<"/","s","/","m","e","t","a","d","a","t","a","/">> \o r \o <<".","j","s","o","n">> \in DOMAIN files
                 THEN Documents[SourceMetadata(r \o <<".","j","s","o","n">>)].targets ELSE <<>>
    IN  UNION {{[name |-> tf, hashes |-> {of(r)[tf][alg] : alg \in DOMAIN of(r)[tf]}] :
                  tf \in DOMAIN of(r)} : r \in ReachableRoles}

\* C13: after a successful conversion every (target, hash) pair declared by
\* a discovered role has exactly one output target file, named by that hash
\* and the target's base name, holding the bytes of the source target; a
\* target with k hashes has exactly k output files, and the output holds no
\* other target file
C13_OneFilePerTargetAndHash ==
    Succeeded =>
        LET copies(t, h) == {q \in OutputTargets : PathBase(q) = HexString(h) \o <<".">> \o PathBase(t.name)}
            copiesOf(t) == UNION {copies(t, h) : h \in t.hashes}
        IN  /\ \A t \in DeclaredTargets : \A h \in t.hashes :
                  /\ Cardinality(copies(t, h)) = 1
                  /\ \A q \in copies(t, h) : files[q].data = files[<<"/","s","/","t","a","r","g","e","t","s","/">> \o t.name].data
            /\ \A t \in DeclaredTargets : Cardinality(copiesOf(t)) = Cardinality(t.hashes)
            /\ OutputTargets = UNION {copiesOf(t) : t \in DeclaredTargets}

\* a conversion succeeded on a layout whose roles declare one target with
\* one hash and two targets with two hashes each
C13_Witness ==
    /\ Succeeded
    /\ Cardinality(DeclaredTargets) = 3
    /\ Cardinality(OutputTargets) = 5
    /\ \E q \in OutputTargets : PathBase(q) = <<"1","2",".","g">> /\ files[q].data = <<8, 8>>
    /\ \E q \in OutputTargets : PathBase(q) = <<"3","4","5","6",".","g">> /\ files[q].data = <<8, 8>>

\* C14 as stated: every target file the converter has written is at
\* targets/H.B directly in the output directory, H being a declared hash of
\* a target in hexadecimal and B the last segment of that target's path
C14_TargetFilesFlat ==
    \A q \in OutputTargets :
        \E t \in DeclaredTargets : \E h \in t.hashes :
            q = <<"/","o","/","t","a","r","g","e","t","s","/">> \o HexString(h) \o <<".">> \o PathBase(t.name)

\* C14: every target file the converter has written is at targets/D/H.B in
\* the output directory, D being the directory part of a declared target's
\* path (nothing for a path of one segment), H one of its declared hashes
\* in hexadecimal and B the last segment of the path
C14_TargetFilesKeepDirectory ==
    \A q \in OutputTargets :
        \E t \in DeclaredTargets : \E h \in t.hashes :
            q = <<"/","o","/","t","a","r","g","e","t","s","/">> \o SubSeq(t.name, 1, LastIndexByte(t.name, "/"))
                    \o HexString(h) \o <<".">> \o PathBase(t.name)

\* the target sub/g has been copied for its sha256 hash
C14_Witness ==
    /\ pc \in {"targets", "roles", "returned"}
    /\ HasFile(<<"/","o","/","t","a","r","g","e","t","s","/","s","u","b","/","1","2",".","g">>, <<8, 8>>)
    /\ <<"/","o","/","t","a","r","g","e","t","s","/","1","2",".","g">> \notin DOMAIN files

\* the inputs that are missing at the first place, in processing order,
\* where one is missing: root_history, timestamp.json, snapshot.json, then
\* for each role in queue order its file and the backing files of its
\* targets (among which the order is not fixed)
FirstMissingInputs ==
    LET RECURSIVE inQueue(_)
        inQueue(queue) ==
            IF queue = <<>> THEN {}
            ELSE LET roleFile == <<"/","s","/","m","e","t","a","d","a","t","a","/">> \o Head(queue) \o <<".","j","s","o","n">>
                     signed == Documents[files[roleFile].data]
                     backing == {<<"/","s","/","t","a","r","g","e","t","s","/">> \o tf : tf \in DOMAIN signed.targets}
                 IN  IF roleFile \notin DOMAIN files THEN {roleFile}
                     ELSE IF backing \ DOMAIN files # {} THEN backing \ DOMAIN files
                     ELSE inQueue(Tail(queue) \o signed.roles)
    IN  IF <<"/","s","/","m","e","t","a","d","a","t","a","/","r","o","o","t","_","h","i","s","t","o","r","y">> \notin DOMAIN files THEN {<<"/","s","/","m","e","t","a","d","a","t","a","/","r","o","o","t","_","h","i","s","t","o","r","y">>}
        ELSE IF <<"/","s","/","m","e","t","a","d","a","t","a","/","t","i","m","e","s","t","a","m","p",".","j","s","o","n">> \notin DOMAIN files THEN {<<"/","s","/","m","e","t","a","d","a","t","a","/","t","i","m","e","s","t","a","m","p",".","j","s","o","n">>}
        ELSE IF <<"/","s","/","m","e","t","a","d","a","t","a","/","s","n","a","p","s","h","o","t",".","j","s","o","n">> \notin DOMAIN files THEN {<<"/","s","/","m","e","t","a","d","a","t","a","/","s","n","a","p","s","h","o","t",".","j","s","o","n">>}
        ELSE inQueue(<<<<"t","a","r","g","e","t","s">>>>)

\* the regular files of the output directory
OutputFiles == {q \in DOMAIN files : HasPrefix(q, <<"/","o","/">>) /\ ~files[q].isDir}

\* the output names of the source's root_history files named N.root.json
RootHistoryCopies ==
    {<<"/","o","/","m","e","t","a","d","a","t","a","/">> \o PathBase(q) :
        q \in {x \in DOMAIN files : HasPrefix(x, <<"/","s","/","m","e","t","a","d","a","t","a","/","r","o","o","t","_","h","i","s","t","o","r","y","/">>)
                                    /\ HasSuffix(x, <<".","r","o","o","t",".","j","s","o","n">>)}}

\* C15: when an expected input is missing the call returns an error that
\* names a missing input of the first place in processing order where one
\* is missing; no step removes or changes a file already written and no
\* step follows the return; with snapshot.json missing the output holds at
\* most the root-history files and timestamp.json, and exactly those when
\* root_history and timestamp.json are present
C15_FailFastOnMissingInput ==
    [][ /\ \A q \in DOMAIN files : q \in DOMAIN files' /\ files'[q] = files[q]
        /\ pc = "returned" => files' = files
        /\ pc' = "returned" =>
             ( /\ FirstMissingInputs # {} =>
                     /\ layoutErr # NoError
                     /\ layoutErr.path \in FirstMissingInputs
                     /\ layoutErr.cause = "ENOENT"
               /\ <<"/","s","/","m","e","t","a","d","a","t","a","/","s","n","a","p","s","h","o","t",".","j","s","o","n">> \notin DOMAIN files =>
                     /\ OutputFiles \subseteq RootHistoryCopies \cup {<<"/","o","/","m","e","t","a","d","a","t","a","/","t","i","m","e","s","t","a","m","p",".","j","s","o","n">>}
                     /\ FirstMissingInputs = {<<"/","s","/","m","e","t","a","d","a","t","a","/","s","n","a","p","s","h","o","t",".","j","s","o","n">>} =>
                            OutputFiles = RootHistoryCopies \cup {<<"/","o","/","m","e","t","a","d","a","t","a","/","t","i","m","e","s","t","a","m","p",".","j","s","o","n">>} )'
      ]_vars

\* a conversion of a layout without snapshot.json has returned
C15_Witness ==
    /\ pc = "returned"
    /\ layoutErr = Errorf("loading snapshot", <<"/","s","/","m","e","t","a","d","a","t","a","/","s","n","a","p","s","h","o","t",".","j","s","o","n">>, "ENOENT")
    /\ OutputFiles = {<<"/","o","/","m","e","t","a","d","a","t","a","/","1",".","r","o","o","t",".","j","s","o","n">>, <<"/","o","/","m","e","t","a","d","a","t","a","/","2",".","r","o","o","t",".","j","s","o","n">>,
                      <<"/","o","/","m","e","t","a","d","a","t","a","/","t","i","m","e","s","t","a","m","p",".","j","s","o","n">>}

\* the names of the files in the source's root_history directory
RootHistoryNames ==
    {PathBase(q) : q \in {x \in DOMAIN files : HasPrefix(x, <<"/","s","/","m","e","t","a","d","a","t","a","/","r","o","o","t","_","h","i","s","t","o","r","y","/">>)}}

\* the root_history names found in the output metadata directory with the
\* source's bytes
CopiedFromRootHistory ==
    {n \in RootHistoryNames :
        HasFile(<<"/","o","/","m","e","t","a","d","a","t","a","/">> \o n, files[<<"/","s","/","m","e","t","a","d","a","t","a","/","r","o","o","t","_","h","i","s","t","o","r","y","/">> \o n].data)}

\* C20 as stated: after a successful conversion every file of root_history
\* is in the output metadata directory under its name with its bytes
C20_EveryHistoryFileCopied == Succeeded => CopiedFromRootHistory = RootHistoryNames

\* C20: after a successful conversion the root_history files in the output
\* metadata directory, each under its name with its bytes, are those whose
\* name ends in .root.json; no other root_history name is in the output
C20_RootFilesCopied ==
    Succeeded =>
        /\ CopiedFromRootHistory = {n \in RootHistoryNames : HasSuffix(n, <<".","r","o","o","t",".","j","s","o","n">>)}
        /\ \A n \in RootHistoryNames \ CopiedFromRootHistory : <<"/","o","/","m","e","t","a","d","a","t","a","/">> \o n \notin DOMAIN files

\* a conversion succeeded on a layout whose root_history holds two roots
\* and a note
C20_Witness ==
    /\ Succeeded
    /\ RootHistoryNames = {<<"1",".","r","o","o","t",".","j","s","o","n">>, <<"2",".","r","o","o","t",".","j","s","o","n">>, <<"n","o","t","e","s">>}
    /\ CopiedFromRootHistory = {<<"1",".","r","o","o","t",".","j","s","o","n">>, <<"2",".","r","o","o","t",".","j","s","o","n">>}

----------------------------------------------------------------------------
(* Filesystem/HTTP backend: properties of DownloadFile                     *)

\* the call reported NotFound: a download error with status 404
NotFound == fnOut.kind = "ErrDownloadHTTP" /\ fnOut.status = 404

\* the local path does not exist: walking it from the root, an element is
\* absent from an existing directory
PathMissing(path) ==
    LET p == PathClean(path)
        ends == {k \in 1..Len(p) : k = Len(p) \/ p[k + 1] = "/"} \ {1}
    IN  \E k \in ends :
           /\ SubSeq(p, 1, k) \notin DOMAIN files
           /\ \A j \in ends : j < k => SubSeq(p, 1, j) \in DOMAIN files /\ files[SubSeq(p, 1, j)].isDir

\* C16: a file:// address whose path does not exist and an HTTP response
\* with status 404 are both reported as a download error with status 404;
\* no other local read failure, no other HTTP status and no other failure
\* is reported so
C16_NotFoundNormalized ==
    (fnOut.done /\ fnIn.fn = "DownloadFile") =>
        LET u == fnIn.arg.urlPath
            answered == HasPrefix(u, <<"h","t","t","p","s",":","/","/">>) /\ ~fnIn.arg.httpFails
            status == IF u \in DOMAIN web THEN web[u].status ELSE 404
        IN  IF HasPrefix(u, <<"f","i","l","e",":","/","/","/","r">>)
            THEN NotFound <=> PathMissing(TrimPrefix(u, <<"f","i","l","e",":","/","/">>))
            ELSE IF answered THEN NotFound <=> status = 404
            ELSE ~NotFound

\* an absent local file was reported as NotFound
C16_Witness ==
    /\ fnOut.done
    /\ fnIn.fn = "DownloadFile"
    /\ fnIn.arg.urlPath = <<"f","i","l","e",":","/","/","/","r","/","m","/","z","z",".","j","s","o","n">>
    /\ NotFound

\* C17 as stated, for the filesystem/HTTP backend: every round trip made
\* on behalf of a DownloadFile call is made under the timeout given in
\* that call
C17_TimeoutHonoured ==
    (fnOut.done /\ fnIn.fn = "DownloadFile") =>
        \A i \in 1..Len(fnOut.trips) : fnOut.trips[i].timeout = fnIn.arg.timeout

----------------------------------------------------------------------------
(* Client sessions: properties of NewClientWithOptions                     *)

\* C18 as stated: two sessions for different repositories never use the
\* same cache directory
C18_CachePerRepository ==
    \A i, j \in DOMAIN clients :
        clients[i].metadataURL # clients[j].metadataURL =>
            clients[i].cacheDir # clients[j].cacheDir

\* C19 as stated: a session created with PrefixTargetsWithHash set has
\* hash-prefixed target downloads enabled in its updater configuration
C19_OptionEnablesHashPrefix ==
    \A i \in DOMAIN clients :
        clients[i].options.PrefixTargetsWithHash => clients[i].cfg.PrefixTargetsWithHash

----------------------------------------------------------------------------
(* Registry backend: failed pulls, index recursion and the cache           *)

\* C21: a call in which a manifest pull failed, the pull of the sub-manifest
\* of a matched index entry included, returns a Transport failure and never
\* NotFound.  (The failed pull is the last round trip of the call;
\* getManifest stores every manifest it pulls, so the locator of a pull
\* that succeeded is in the cache.)
C21_ManifestFailureIsTransport ==
    LET n == Len(last.trips)
    IN  (n > 0 /\ last.trips[n].op = "manifest" /\ last.trips[n].ref \notin DOMAIN cache)
            => Returned("Transport")

----------------------------------------------------------------------------
(* Layout converter: the traversal of the delegation graph                 *)

\* the role names the source file of a role declares as its delegations, in
\* declaration order
Delegates(r) == Documents[SourceMetadata(r \o DotJson)].roles

\* no role reachable from "targets" is reachable from its own delegations
Acyclic ==
    \A r \in ReachableRoles :
        r \notin RolesFrom({Delegates(r)[i] : i \in 1..Len(Delegates(r))})

\* the order in which a first-in first-out traversal that starts with this
\* queue takes the roles of an acyclic graph
RECURSIVE BreadthFirstOrder(_)
BreadthFirstOrder(queue) ==
    IF queue = <<>> THEN <<>>
    ELSE <<Head(queue)>> \o BreadthFirstOrder(Tail(queue) \o Delegates(Head(queue)))

\* C22: on a complete source layout with an acyclic delegation graph, the
\* roles are taken in first-in first-out order starting from "targets" (each
\* taken role is the head of the queue, and the roles taken so far are a
\* prefix of the breadth-first order), every role named in the delegations
\* of a processed role is appended to the queue, the call returns from the
\* loop exactly when the queue is empty and then returns nil, and every
\* call does return nil.
C22_BreadthFirstTraversal ==
    /\ [](Acyclic =>
            /\ Len(processed) <= Len(BreadthFirstOrder(<<<<"t","a","r","g","e","t","s">>>>))
            /\ processed = SubSeq(BreadthFirstOrder(<<<<"t","a","r","g","e","t","s">>>>), 1, Len(processed))
            /\ Succeeded => processed = BreadthFirstOrder(<<<<"t","a","r","g","e","t","s">>>>))
    /\ [][Acyclic =>
            /\ (pc = "roles" /\ pc' = "targets") =>
                   /\ delegatedRoles = <<curRole'.name>> \o delegatedRoles'
                   /\ processed' = Append(processed, curRole'.name)
            /\ (pc = "targets" /\ pc' = "roles") =>
                   delegatedRoles' = delegatedRoles \o Delegates(curRole.name)
            /\ pc = "roles" => ((delegatedRoles = <<>>) <=> Succeeded')
            /\ (pc \in {"roles", "targets"} /\ pc' = "returned") => pc = "roles"]_vars
    /\ (Acyclic /\ pc = "start") ~> Succeeded

\* a conversion of the layout in which a and b both delegate to c succeeded
C22_Witness ==
    /\ Succeeded
    /\ runs = 0
    /\ processed = <<<<"t","a","r","g","e","t","s">>, <<"a">>, <<"b">>, <<"c">>, <<"c">>>>

\* C23: on a complete source layout whose delegation graph has a cycle
\* reachable from "targets", the call never returns, with or without an
\* error, and at every return to the head of the loop (after every role
\* processed) the queue is not empty.
C23_CycleNeverReturns ==
    ~Acyclic =>
        /\ pc # "returned"
        /\ layoutErr = NoError
        /\ pc = "roles" => delegatedRoles # <<>>

\* on a cyclic layout "targets" has been taken from the queue a second
\* time and the loop is at its head again
C23_Witness ==
    /\ ~Acyclic
    /\ pc = "roles"
    /\ delegatedRoles # <<>>
    /\ \E i, j \in 1..Len(processed) :
          i < j /\ processed[i] = <<"t","a","r","g","e","t","s">> /\ processed[j] = <<"t","a","r","g","e","t","s">>

\* the number of delegation paths that lead from one role to another in an
\* acyclic graph, a role declared k times by another counting k times
RECURSIVE DelegationPaths(_, _)
DelegationPaths(from, to) ==
    LET RECURSIVE sum(_)
        sum(roles) == IF roles = <<>> THEN 0
                      ELSE DelegationPaths(Head(roles), to) + sum(Tail(roles))
    IN  IF from = to THEN 1 ELSE sum(Delegates(from))

\* the files, each with its bytes, of the output of a conversion that
\* processes every role reachable from "targets" once
OutputProcessingOnce ==
    LET meta(n) == <<"/","o","/","m","e","t","a","d","a","t","a","/">> \o n
        signed(n) == Documents[SourceMetadata(n)]
        copiesOf(r) ==
            {<<PathJoin(<<outputTargetsDir, PathDir(pr[1]),
                          HexString(signed(r \o DotJson).targets[pr[1]][pr[2]]) \o <<".">>
                              \o PathBase(pr[1])>>),
               files[<<"/","s","/","t","a","r","g","e","t","s","/">> \o pr[1]].data>> :
                pr \in {x \in (DOMAIN signed(r \o DotJson).targets) \X {"sha256", "sha512"} :
                           x[2] \in DOMAIN signed(r \o DotJson).targets[x[1]]}}
    IN        {<<meta(n), files[<<"/","s","/","m","e","t","a","d","a","t","a","/","r","o","o","t","_","h","i","s","t","o","r","y","/">> \o n].data>> :
                  n \in {x \in RootHistoryNames : HasSuffix(x, <<".","r","o","o","t",".","j","s","o","n">>)}}
         \cup {<<meta(<<"t","i","m","e","s","t","a","m","p",".","j","s","o","n">>), SourceMetadata(<<"t","i","m","e","s","t","a","m","p",".","j","s","o","n">>)>>}
         \cup {<<meta(Itoa(signed(<<"s","n","a","p","s","h","o","t",".","j","s","o","n">>).version) \o <<".","s","n","a","p","s","h","o","t",".","j","s","o","n">>),
                 SourceMetadata(<<"s","n","a","p","s","h","o","t",".","j","s","o","n">>)>>}
         \cup {<<meta(Itoa(signed(r \o DotJson).version) \o <<".">> \o r \o DotJson),
                 SourceMetadata(r \o DotJson)>> : r \in ReachableRoles}
         \cup UNION {copiesOf(r) : r \in ReachableRoles}

\* C29: on a complete source layout with an acyclic delegation graph every
\* call returns nil having taken each role from the queue once for every
\* delegation path that leads to it from "targets"; the files of the output
\* directory and their bytes are then those of a conversion that processes
\* every reachable role once; and no step of a second call changes the
\* filesystem the first call left.
C29_RepeatedProcessingIsIdempotent ==
    /\ [](Acyclic /\ pc = "returned" =>
            /\ layoutErr = NoError
            /\ \A r \in ReachableRoles :
                  Cardinality({i \in 1..Len(processed) : processed[i] = r})
                      = DelegationPaths(<<"t","a","r","g","e","t","s">>, r)
            /\ {<<q, files[q].data>> : q \in OutputFiles} = OutputProcessingOnce)
    /\ [][runs >= 1 => files' = files]_vars

\* the second conversion of the layout in which a and b both delegate to c
\* has returned; c was processed twice
C29_Witness ==
    /\ Succeeded
    /\ runs = 1
    /\ processed = <<<<"t","a","r","g","e","t","s">>, <<"a">>, <<"b">>, <<"c">>, <<"c">>>>
    /\ DelegationPaths(<<"t","a","r","g","e","t","s">>, <<"c">>) = 2
    /\ HasFile(<<"/","o","/","m","e","t","a","d","a","t","a","/","1",".","c",".","j","s","o","n">>, <<10>>)

\* C24: in a call whose file name matches an entry of the index manifest at
\* the resolved repository:tag, the sub-manifest at targetsRepo@digest of
\* that entry is taken from the cache when it is there and pulled once, after
\* the index, when it is not; no other manifest is consulted, so the scan
\* is repeated once; when the sub-manifest is an image manifest with a layer
\* annotated with the final segment of the file name, the content is
\* requested at the digest of that layer, and the content digest of every
\* such call comes from an image manifest.
C24_IndexRecursion ==
    [][(calls' = calls + 1 /\ last'.imgRef \in DOMAIN cache') =>
        LET call == last'
            top == cache'[call.imgRef]
            digest == ScanLayers(top.manifests, call.fileName)
            subRef == d.targetsRepo \o <<"@">> \o digest
            parts == Split(call.fileName, "/")
            pulls(ref) == {i \in 1..Len(call.trips) :
                              call.trips[i].op = "manifest" /\ call.trips[i].ref = ref}
        IN  (top.mediaType = "OCIImageIndex" /\ digest # <<>>) =>
               /\ Cardinality(pulls(subRef)) = IF subRef \in DOMAIN cache THEN 0 ELSE 1
               /\ \A i \in pulls(subRef), j \in pulls(call.imgRef) : j < i
               /\ CountOp(call.trips, "manifest")
                     = Cardinality(pulls(subRef)) + Cardinality(pulls(call.imgRef))
               /\ subRef \in DOMAIN cache' =>
                     LET sub == cache'[subRef]
                         found == ScanLayers(sub.layers, parts[Len(parts)])
                     IN  /\ (sub.mediaType = "OCIManifestSchema1" /\ found # <<>>) =>
                                call.layerRef = d.targetsRepo \o <<"@">> \o found
                         /\ call.layerRef # <<>> =>
                                /\ sub.mediaType = "OCIManifestSchema1"
                                /\ call.layerRef = d.targetsRepo \o <<"@">> \o found
    ]_vars

\* a file below a subdirectory was returned after the index and then the
\* image it refers to were pulled
C24_Witness ==
    /\ last.kind = "ok"
    /\ last.fileName = <<"s","u","b","/","g",".","t","x","t">>
    /\ last.data = <<9>>
    /\ Len(last.trips) = 4
    /\ last.trips[1] = [op |-> "manifest", ref |-> <<"r",".","i","o","/","t",":","s","u","b">>, timeout |-> timeout]
    /\ last.trips[2] = [op |-> "manifest", ref |-> <<"r",".","i","o","/","t","@","s","h","a","2","5","6",":","c","1">>, timeout |-> timeout]
    /\ last.layerRef = <<"r",".","i","o","/","t","@","s","h","a","2","5","6",":","b","2">>

\* C26: over the DownloadFile calls made on one instance, no call removes
\* a cache entry or changes its value; an entry a call adds is either a
\* manifest, stored under the repository:tag the address resolves to or
\* under targetsRepo@digest, or content, stored under repository@digest;
\* and it is added after a round trip of that call for that locator which
\* succeeded: a manifest entry is the manifest the registry holds at the
\* locator, a content entry holds the bytes the call returned.
C26_CacheWriteOnce ==
    [][ /\ \A k \in DOMAIN cache : k \in DOMAIN cache' /\ cache'[k] = cache[k]
        /\ \A k \in DOMAIN cache' \ DOMAIN cache :
              /\ calls' = calls + 1
              /\ IF cache'[k].isJSON
                 THEN /\ \E i \in 1..Len(last'.trips) :
                            last'.trips[i].op = "manifest" /\ last'.trips[i].ref = k
                      /\ k \in DOMAIN registry.manifests
                      /\ cache'[k] = registry.manifests[k]
                      /\ \/ k = last'.imgRef /\ IndexByte(k, "@") = 0
                                            /\ LastIndexByte(k, ":") > LastIndexByte(k, "/")
                         \/ \E i \in 1..Len(cache'[last'.imgRef].manifests) :
                               k = d.targetsRepo \o <<"@">> \o cache'[last'.imgRef].manifests[i].digest
                 ELSE /\ \E i \in 1..Len(last'.trips) :
                            last'.trips[i].op = "layer" /\ last'.trips[i].ref = k
                      /\ k = last'.layerRef
                      /\ k \in DOMAIN registry.layers
                      /\ HasPrefix(SubSeq(k, IndexByte(k, "@"), Len(k)), <<"@","s","h","a","2","5","6",":">>)
                      /\ last'.kind = "ok"
                      /\ cache'[k] = FileBytes(last'.data)
    ]_vars

\* after two calls the cache holds an index, the image it refers to, a
\* second image and the content of two files
C26_Witness ==
    /\ calls = 2
    /\ Cardinality(DOMAIN cache) = 5
    /\ Cardinality({k \in DOMAIN cache : cache[k].isJSON}) = 3
    /\ <<"r",".","i","o","/","t",":","s","u","b">> \in DOMAIN cache
    /\ <<"r",".","i","o","/","t","@","s","h","a","2","5","6",":","c","1">> \in DOMAIN cache
    /\ <<"r",".","i","o","/","t","@","s","h","a","2","5","6",":","b","2">> \in DOMAIN cache

\* C27: a call that returns LengthMismatch or fails in the pull of the
\* layer adds no content entry to the cache, and the next call for the same
\* address with a maxLength that is at least the declared size and the
\* content length pulls the layer and returns the stored bytes (stated for
\* second calls in which no round trip fails).
C27_RetryAfterFailedPull ==
    [][ /\ (calls' = calls + 1 /\ last'.kind \in {"LengthMismatch", "Transport"}) =>
              {k \in DOMAIN cache' : ~cache'[k].isJSON} = {k \in DOMAIN cache : ~cache[k].isJSON}
        /\ (/\ SecondCallSameAddress
            /\ last.kind \in {"LengthMismatch", "Transport"}
            /\ last.layerRef \in DOMAIN registry.layers
            /\ registry.layers[last.layerRef].size <= last'.maxLength
            /\ Len(registry.layers[last.layerRef].content) <= last'.maxLength
            /\ last'.kind # "Transport")
           => /\ last'.kind = "ok"
              /\ last'.data = registry.layers[last.layerRef].content
              /\ CountOp(last'.trips, "layer") = 1
    ]_vars

----------------------------------------------------------------------------
(* Filesystem/HTTP backend: the size check of local files                  *)

\* C25: for a file:// address of a regular file that is longer than
\* maxLength, whatever maxLength is, the call returns a size error, which
\* is not the 404 download error, and returns no bytes.
C25_OversizeLocalFileRejected ==
    (fnOut.done /\ fnIn.fn = "DownloadFile") =>
        LET parsedURL == UrlParse(fnIn.arg.urlPath)
            read == ReadFile(files, parsedURL.path)
        IN  (/\ parsedURL.ok
             /\ parsedURL.scheme = <<"f","i","l","e">>
             /\ read.err = ""
             /\ Len(read.data) > fnIn.arg.maxLength)
            => fnOut.kind = "SizeError" /\ ~NotFound /\ fnOut.data = <<>>

----------------------------------------------------------------------------
(* Git-layout backend: the rewrite and the metadata base URL               *)

\* C28: the address a request is mapped to is the same for every metadata
\* base URL the fetcher may hold; it is rewritten whether or not it lies
\* below that base URL; and a request N.role.json below the targets
\* directory is mapped as the same file name is below the metadata
\* directory: N.root.json goes to root_history for N other than 1, and
\* N.snapshot.json, N.timestamp.json and N.targets.json lose the version.
C28_RewriteIgnoresBaseURL ==
    tufOut.done =>
        LET name == RequestedName
            underTargets == tufIn.urlPath = <<"f","i","l","e",":","/","/","/","r","/","t","/">> \o name
            asMetadata == mapTufOnCiURL(NewTufOnCiFetcher(tufIn.metadataBaseURL),
                                        <<"f","i","l","e",":","/","/","/","r","/","m","/">> \o name)
        IN  /\ \A base \in {<<"f","i","l","e",":","/","/","/","r","/","m">>, <<"h","t","t","p","s",":","/","/","h","/","r","/","m">>, <<"f","i","l","e",":","/","/","/","r","/","t">>, <<>>} :
                  tufOut.mappedURL = mapTufOnCiURL(NewTufOnCiFetcher(base), tufIn.urlPath)
            /\ underTargets =>
                  tufOut.mappedURL = <<"f","i","l","e",":","/","/","/","r","/","t">> \o TrimPrefix(asMetadata, <<"f","i","l","e",":","/","/","/","r","/","m">>)
            /\ (underTargets /\ IsVersionedName(name) /\ name # <<"1",".","r","o","o","t",".","j","s","o","n">>) =>
                  tufOut.mappedURL # tufIn.urlPath

\* a versioned snapshot requested below the targets directory, by a fetcher
\* whose metadata base URL is the metadata directory, was mapped to the
\* unversioned name
C28_Witness ==
    /\ tufOut.done
    /\ tufIn.metadataBaseURL = <<"f","i","l","e",":","/","/","/","r","/","m">>
    /\ tufIn.urlPath = <<"f","i","l","e",":","/","/","/","r","/","t","/","2",".","s","n","a","p","s","h","o","t",".","j","s","o","n">>
    /\ tufOut.mappedURL = <<"f","i","l","e",":","/","/","/","r","/","t","/","s","n","a","p","s","h","o","t",".","j","s","o","n">>

----------------------------------------------------------------------------
(* Registry backend: the order of the prefix tests in parseImgRef          *)

\* C30: parseImgRef resolves an address against the metadata repository
\* exactly when the address starts with the metadata URL and does not start
\* with the targets URL; an address that starts with the targets URL is
\* resolved as a targets request; so with a targets URL that is a prefix of
\* the metadata URL every address below the metadata URL is resolved
\* against the targets repository, with the remainder after the targets URL
\* as the file name.
C30_TargetsPrefixTestedFirst ==
    Parsed =>
        LET underMetadata == HasPrefix(fnIn.arg, d.metadataURL)
            underTargets == HasPrefix(fnIn.arg, d.targetsURL)
            remainder == TrimPrefix(fnIn.arg, d.targetsURL \o <<"/">>)
        IN  /\ (~fnOut.err /\ HasPrefix(fnOut.imgRef, d.metadataRepo \o <<":">>))
                  <=> (underMetadata /\ ~underTargets)
            /\ underTargets =>
                  /\ ~fnOut.err
                  /\ fnOut.imgRef = d.targetsRepo \o <<":">> \o Split(remainder, "/")[1]
                  /\ fnOut.fileName = remainder
            /\ (HasPrefix(d.metadataURL, d.targetsURL) /\ underMetadata) =>
                  /\ ~fnOut.err
                  /\ HasPrefix(fnOut.imgRef, d.targetsRepo \o <<":">>)
                  /\ fnOut.fileName = remainder

\* with the metadata repository named below the targets repository, the
\* request for the first root was resolved as the target m/1.root.json
C30_Witness ==
    /\ Parsed
    /\ d.targetsURL = <<"o","c","i",":","/","/","r",".","i","o","/","p">>
    /\ d.metadataURL = <<"o","c","i",":","/","/","r",".","i","o","/","p","/","m">>
    /\ fnIn.arg = <<"o","c","i",":","/","/","r",".","i","o","/","p","/","m","/","1",".","r","o","o","t",".","j","s","o","n">>
    /\ fnOut.imgRef = <<"r",".","i","o","/","p",":","m">>
    /\ fnOut.fileName = <<"m","/","1",".","r","o","o","t",".","j","s","o","n">>

====
